---- MODULE Spec2Model ----
(***************************************************************************)
(* Timezone boundary and interval overlap engine of timew-formatter.       *)
(*                                                                         *)
(* Twelve specifications share this module:                                *)
(*   Spec           the entries table, the duplicate guard and the writers *)
(*   SpecRounds     guarded import rounds alone, from the empty table      *)
(*   SpecOverlap    timeRangesOverlap as a pure function of two intervals  *)
(*   SpecCalendar   the Taipei day boundary functions (timezone module)    *)
(*   SpecValidation the entry validation functions (validation module)     *)
(*   SpecWorkflows  two workflows in blockInsertionIfOverlap, step by step  *)
(*   SpecGuard      one call of the guard on a table that does not change   *)
(*   SpecFetch      one run of the fetch command against a table            *)
(*   SpecMessage    the overlap error messages built from conflict lists    *)
(*   SpecTransactions  insertEntry and insertEntries, statement by statement *)
(*   SpecPool       createConnection and closeConnection on the shared pool *)
(*   SpecProjects   concurrent calls of ensureProjectExists                 *)
(* A specification leaves the variables of the others at their idle        *)
(* values.                                                                 *)
(***************************************************************************)
EXTENDS Integers, Sequences, FiniteSets, TLC

VARIABLES
    store,      \* rows of timewplus_entries, kept ordered by startTime
    call,       \* the last call made to the duplicates module and its outcome
    ivA,        \* first interval handed to timeRangesOverlap
    ivB,        \* second interval handed to timeRangesOverlap
    ovl,        \* its results for (ivA, ivB) and (ivB, ivA)
    hostOffset, \* UTC offset of the host machine's time zone, in minutes
    cal,        \* the Taipei date last given to calculateDateBoundaries, its result
    probe,      \* the timestamp last tested against cal's boundaries, the results
    now,        \* the clock: the time value new Date() gives
    input,      \* the array of raw records given to the validation module
    out,        \* the validation module's last call and what it returned
    job,        \* the range and the batch two concurrent workflows import
    wf,         \* each workflow's place in blockInsertionIfOverlap and after it
    fetch,      \* one run of the fetch command: its arguments, the table, its statements
    msg,        \* the overlap details given to the message builders, the text built
    tx,         \* one call of insertEntry or insertEntries: its client, statements and rows
    conn,       \* the module's pool reference, the pools created, the closeConnection calls pending
    proj        \* the projects table and each ensureProjectExists call in flight

guardVars == <<store, call>>
overlapVars == <<ivA, ivB, ovl>>
calendarVars == <<hostOffset, cal, probe>>
validationVars == <<now, input, out>>
workflowVars == <<job, wf>>
serviceVars == <<fetch, msg, tx, conn, proj>>
vars == <<store, call, ivA, ivB, ovl, hostOffset, cal, probe, now, input, out, job, wf, fetch, msg, tx, conn, proj>>

(***************************************************************************)
(* Bounds of the model.                                                    *)
(***************************************************************************)
MaxT == 2         \* timeRangesOverlap alone: instants are 0..MaxT
GuardMaxT == 1    \* the table and its callers: instants are 0..GuardMaxT
MaxBatch == 2     \* most candidates in one batch
MaxStore == 2     \* most rows the table holds
YearSpan == 3     \* calendar dates run over YearSpan years from StartYear
MaxEntries == 2   \* longest array given to filterTodayEntries and validateEntries
WorkflowBatch == 1 \* most candidates in the batch of SpecWorkflows and SpecGuard

(***************************************************************************)
(* Intervals.  startTime is an instant; endTime is an instant or NULL (an  *)
(* ongoing entry: the column is NULL, the JSON field null or missing).     *)
(***************************************************************************)
NULL == -1

Instants == 0..MaxT

GuardInstants == 0..GuardMaxT

\* every (startTime, endTime) shape timeRangesOverlap can be handed
AnyIntervals == [startTime : Instants, endTime : Instants \cup {NULL}]

\* Interval invariant of the data model: if the end is present, end >= start
ValidInterval(x) == x.endTime = NULL \/ x.endTime >= x.startTime

\* the intervals an export can hold
Intervals ==
    {x \in [startTime : GuardInstants, endTime : GuardInstants \cup {NULL}] : ValidInterval(x)}

\* non-empty batches of at most n valid candidates
RECURSIVE BatchesUpTo(_)
BatchesUpTo(n) ==
    IF n = 0 THEN {<<>>}
    ELSE LET shorter == BatchesUpTo(n - 1)
         IN  shorter \cup {Append(b, x) : b \in {s \in shorter : Len(s) = n - 1}, x \in Intervals}

Batches == BatchesUpTo(MaxBatch) \ {<<>>}

(***************************************************************************)
(* duplicates.js                                                           *)
(***************************************************************************)

\* validateDateRange: both dates parse and start <= end (else it throws)
validateDateRange(startDate, endDate) ==
    /\ startDate \in GuardInstants
    /\ endDate \in GuardInstants
    /\ ~(startDate > endDate)

\* The both-bounded test with inclusive comparisons (touching intervals overlap).
timeRangesOverlapInclusive(start1, end1, start2, end2) ==
    IF end1 = NULL \/ end2 = NULL
    THEN IF end1 = NULL THEN start2 >= start1 ELSE start1 >= start2
    ELSE start1 <= end2 /\ start2 <= end1

\* The ongoing test ignoring which side is ongoing (always s2 >= s1).
timeRangesOverlapOneSided(start1, end1, start2, end2) ==
    IF end1 = NULL \/ end2 = NULL
    THEN start2 >= start1
    ELSE start1 < end2 /\ start2 < end1

\* The ongoing test taking two ongoing ranges as always in conflict.
timeRangesOverlapBothOpen(start1, end1, start2, end2) ==
    IF end1 = NULL /\ end2 = NULL THEN TRUE
    ELSE IF end1 = NULL \/ end2 = NULL
    THEN IF end1 = NULL THEN start2 >= start1 ELSE start1 >= start2
    ELSE start1 < end2 /\ start2 < end1

timeRangesOverlap(start1, end1, start2, end2) ==
    IF end1 = NULL \/ end2 = NULL
    THEN IF end1 = NULL THEN start2 >= start1 ELSE start1 >= start2
    ELSE start1 < end2 /\ start2 < end1

\* WHERE "startTime" >= $1 AND "startTime" <= $2
InDateRange(row, startDate, endDate) ==
    row.startTime >= startDate /\ row.startTime <= endDate

\* SELECT COUNT(*) ... > 0
hasEntriesInDateRange(rows, startDate, endDate) ==
    Cardinality({i \in DOMAIN rows : InDateRange(rows[i], startDate, endDate)}) > 0

\* ORDER BY "startTime" ASC: the table is kept in that order (see InsertRows)
\* SELECT * ... WHERE "startTime" >= $1 AND "startTime" <= $2 ORDER BY "startTime" ASC
SelectInDateRange(rows, startDate, endDate) ==
    SelectSeq(rows, LAMBDA r : InDateRange(r, startDate, endDate))

\* the classification looking at the existing entry alone
overlapTypeExistingOnly(newEntry, existingEntry) ==
    IF existingEntry.endTime = NULL THEN "ongoing_conflict" ELSE "time_overlap"

overlapType(newEntry, existingEntry) ==
    IF existingEntry.endTime = NULL \/ newEntry.endTime = NULL
    THEN "ongoing_conflict"
    ELSE "time_overlap"

\* the nested loops leaving the inner loop at a candidate's first overlap
RECURSIVE OverlapsFromFirstOnly(_, _, _, _)
OverlapsFromFirstOnly(newEntries, existingEntries, i, j) ==
    IF i > Len(newEntries) THEN <<>>
    ELSE IF j > Len(existingEntries)
    THEN OverlapsFromFirstOnly(newEntries, existingEntries, i + 1, 1)
    ELSE LET newEntry == newEntries[i]
             existingEntry == existingEntries[j]
         IN  IF timeRangesOverlap(newEntry.startTime, newEntry.endTime,
                                  existingEntry.startTime, existingEntry.endTime)
             THEN <<[newEntry |-> newEntry, newIndex |-> i,
                     existingEntry |-> existingEntry,
                     overlapType |-> overlapType(newEntry, existingEntry)]>>
                  \o OverlapsFromFirstOnly(newEntries, existingEntries, i + 1, 1)
             ELSE OverlapsFromFirstOnly(newEntries, existingEntries, i, j + 1)

\* the nested loops of checkDateRangeOverlap, from candidate i and existing row j on
RECURSIVE OverlapsFrom(_, _, _, _)
OverlapsFrom(newEntries, existingEntries, i, j) ==
    IF i > Len(newEntries) THEN <<>>
    ELSE IF j > Len(existingEntries) THEN OverlapsFrom(newEntries, existingEntries, i + 1, 1)
    ELSE LET newEntry == newEntries[i]
             existingEntry == existingEntries[j]
             rest == OverlapsFrom(newEntries, existingEntries, i, j + 1)
         IN  IF timeRangesOverlap(newEntry.startTime, newEntry.endTime,
                                  existingEntry.startTime, existingEntry.endTime)
             THEN <<[newEntry |-> newEntry, newIndex |-> i,
                     existingEntry |-> existingEntry,
                     overlapType |-> overlapType(newEntry, existingEntry)]>> \o rest
             ELSE rest

checkDateRangeOverlap(rows, startDate, endDate, newEntries) ==
    IF Len(newEntries) = 0
    THEN [hasOverlap |-> FALSE, overlaps |-> <<>>]
    ELSE LET existingEntries == SelectInDateRange(rows, startDate, endDate)
             overlaps == OverlapsFrom(newEntries, existingEntries, 1, 1)
         IN  [hasOverlap |-> Len(overlaps) > 0, overlaps |-> overlaps]

\* the guard of the documented rule: it throws whenever the range holds a row
blockInsertionIfExists(rows, startDate, endDate, newEntries) ==
    IF ~hasEntriesInDateRange(rows, startDate, endDate)
    THEN [thrown |-> FALSE, overlaps |-> <<>>]
    ELSE [thrown |-> TRUE,
          overlaps |-> checkDateRangeOverlap(rows, startDate, endDate, newEntries).overlaps]

\* its outcome: thrown = TRUE is the "Insertion blocked" error
blockInsertionIfOverlap(rows, startDate, endDate, newEntries) ==
    IF ~hasEntriesInDateRange(rows, startDate, endDate)
    THEN [thrown |-> FALSE, overlaps |-> <<>>]
    ELSE LET overlapResult == checkDateRangeOverlap(rows, startDate, endDate, newEntries)
         IN  [thrown |-> overlapResult.hasOverlap, overlaps |-> overlapResult.overlaps]

(***************************************************************************)
(* The guard at work.  A caller awaits blockInsertionIfOverlap and, when   *)
(* it returns without error, inserts the batch; nothing else writes in     *)
(* between (one critical section per round).  call holds the pending call  *)
(* and its outcome until the caller moves on.                              *)
(***************************************************************************)
NoCall == [op |-> "none", startDate |-> 0, endDate |-> 0, newEntries |-> <<>>,
           thrown |-> FALSE, hasOverlap |-> FALSE, overlaps |-> <<>>]

GuardIdle == store = <<>> /\ call = NoCall

\* the order the table is kept in: by startTime, then by endTime (NULL first)
RowBefore(r1, r2) ==
    \/ r1.startTime < r2.startTime
    \/ r1.startTime = r2.startTime /\ r1.endTime <= r2.endTime

\* an insert that a unique (startTime, endTime) constraint turns away
InsertRowUnique(rows, newEntry) ==
    LET row == [startTime |-> newEntry.startTime, endTime |-> newEntry.endTime]
        n == Cardinality({i \in DOMAIN rows : RowBefore(rows[i], row)})
    IN  IF \E i \in DOMAIN rows : rows[i] = row THEN rows
        ELSE SubSeq(rows, 1, n) \o <<row>> \o SubSeq(rows, n + 1, Len(rows))

\* INSERT INTO timewplus_entries one row
InsertRow(rows, newEntry) ==
    LET row == [startTime |-> newEntry.startTime, endTime |-> newEntry.endTime]
        n == Cardinality({i \in DOMAIN rows : RowBefore(rows[i], row)})
    IN  SubSeq(rows, 1, n) \o <<row>> \o SubSeq(rows, n + 1, Len(rows))

\* the caller's loop of INSERTs over the batch, from candidate k on
RECURSIVE InsertFrom(_, _, _)
InsertFrom(rows, newEntries, k) ==
    IF k > Len(newEntries) THEN rows
    ELSE InsertFrom(InsertRow(rows, newEntries[k]), newEntries, k + 1)

InsertRows(rows, newEntries) == InsertFrom(rows, newEntries, 1)

\* entries.js validateEntry, as far as the interval goes (projectId and
\* groupType are taken as given): FALSE is the thrown error.  startTime and
\* endTime are compared as strings of one format, that is chronologically.
entriesValidateEntry(entry) ==
    ~(entry.endTime # NULL /\ entry.endTime <= entry.startTime)

\* insertEntries: every entry is validated before the transaction starts;
\* one failure and nothing is inserted
insertEntries(rows, entries) ==
    IF \A k \in DOMAIN entries : entriesValidateEntry(entries[k])
    THEN InsertRows(rows, entries)
    ELSE rows

\* await blockInsertionIfOverlap(pool, startDate, endDate, newEntries)
Admit ==
    /\ call.op = "none"
    /\ \E startDate \in GuardInstants, endDate \in GuardInstants, newEntries \in Batches :
           /\ validateDateRange(startDate, endDate)
           /\ LET r == blockInsertionIfOverlap(store, startDate, endDate, newEntries)
              IN  call' = [op |-> "admit", startDate |-> startDate, endDate |-> endDate,
                           newEntries |-> newEntries, thrown |-> r.thrown,
                           hasOverlap |-> r.thrown, overlaps |-> r.overlaps]
           /\ UNCHANGED store

\* the caller's write after a successful admit of a batch lying in the
\* range: insertEntries(pool, newEntries)
InsertAdmitted ==
    /\ call.op = "admit"
    /\ ~call.thrown
    /\ \A k \in DOMAIN call.newEntries :
           InDateRange(call.newEntries[k], call.startDate, call.endDate)
    /\ Len(store) + Len(call.newEntries) <= MaxStore
    /\ store' = insertEntries(store, call.newEntries)
    /\ call' = NoCall

\* fetchDateRange's own existence check,
\* WHERE "startTime" >= $1 AND "startTime" < $2
fetchExistingCount(rows, startDate, endDate) ==
    Cardinality({i \in DOMAIN rows :
                    rows[i].startTime >= startDate /\ rows[i].startTime < endDate})

\* the fetch command: if rows exist in the range it stops, else it INSERTs
\* every exported entry as it is
fetchDateRange ==
    /\ call.op = "none"
    /\ \E startDate \in GuardInstants, endDate \in GuardInstants, data \in Batches :
           /\ startDate <= endDate
           /\ Len(store) + Len(data) <= MaxStore
           /\ store' = IF fetchExistingCount(store, startDate, endDate) > 0
                       THEN store
                       ELSE InsertRows(store, data)
    /\ UNCHANGED call

\* the caller is done with the outcome of its call (returned or thrown)
EndRound ==
    /\ call.op # "none"
    /\ call' = NoCall
    /\ UNCHANGED store

\* await checkDateRangeOverlap(pool, startDate, endDate, newEntries)
CheckOverlap ==
    /\ call.op = "none"
    /\ \E startDate \in GuardInstants, endDate \in GuardInstants, newEntries \in Batches :
           /\ validateDateRange(startDate, endDate)
           /\ LET r == checkDateRangeOverlap(store, startDate, endDate, newEntries)
              IN  call' = [op |-> "check", startDate |-> startDate, endDate |-> endDate,
                           newEntries |-> newEntries, thrown |-> FALSE,
                           hasOverlap |-> r.hasOverlap, overlaps |-> r.overlaps]
           /\ UNCHANGED store

(***************************************************************************)
(* blockInsertionIfOverlap step by step.  The function awaits pool.query   *)
(* twice: the COUNT of hasEntriesInDateRange, then the SELECT of           *)
(* checkDateRangeOverlap.  Between the awaits, and between its return and  *)
(* the caller's insert, other workflows run.  A query may be rejected by   *)
(* the store with any value.                                               *)
(***************************************************************************)
Workflows == {1, 2}

\* the statement of hasEntriesInDateRange
countQuery(startDate, endDate) ==
    [kind |-> "SELECT COUNT", startDate |-> startDate, endDate |-> endDate]

\* a statement that removes the rows it reads (DELETE ... RETURNING *)
existingEntriesQueryDeleting(startDate, endDate) ==
    [kind |-> "DELETE", startDate |-> startDate, endDate |-> endDate]

\* the statement of checkDateRangeOverlap
existingEntriesQuery(startDate, endDate) ==
    [kind |-> "SELECT", startDate |-> startDate, endDate |-> endDate]

\* pool.query(statement) on the table rows: the table afterwards and the
\* rows of the result (for the COUNT, as many rows as it counts)
Execute(statement, rows) ==
    LET hit == SelectInDateRange(rows, statement.startDate, statement.endDate)
    IN  IF statement.kind = "DELETE"
        THEN [table |-> SelectSeq(rows, LAMBDA r :
                            ~InDateRange(r, statement.startDate, statement.endDate)),
              rows |-> hit]
        ELSE [table |-> rows, rows |-> hit]

\* what a rejected pool.query can raise: an Error (it has a message), or any
\* other value (a string, null, an object without a message)
StoreErrors == {[name |-> "Error", message |-> "Connection timeout", hasMessage |-> TRUE],
                [name |-> "value", message |-> "", hasMessage |-> FALSE]}

NoError == [name |-> "none", message |-> "", hasMessage |-> FALSE]

\* reading error.message of a value that has none fails with a TypeError
TypeError == [name |-> "TypeError", message |-> "Cannot read properties", hasMessage |-> TRUE]

\* catch (error) { if (error.message.includes(...)) throw error; throw error; }
CatchRethrow(error) == IF error.hasMessage THEN error ELSE TypeError

NoJob == [startDate |-> 0, endDate |-> 0, newEntries |-> <<>>]

\* pc: "idle" (not running), "count" and "select" (awaiting that query),
\* "admitted" (the guard returned), "blocked" (it threw the overlap error),
\* "failed" (it threw something else), "done" (the caller has inserted)
IdleWorkflow == [pc |-> "idle", count |-> 0, existingEntries |-> <<>>, overlaps |-> <<>>,
                 queries |-> <<>>, raised |-> NoError, error |-> NoError,
                 inserted |-> FALSE]

WorkflowIdle == job = NoJob /\ wf = [w \in Workflows |-> IdleWorkflow]

\* the tables the workflows can find: empty, or holding one interval
InitialTables == {<<>>} \cup {<<x>> : x \in Intervals}

\* the COUNT query of hasEntriesInDateRange resolves
CountResolves(w) ==
    /\ wf[w].pc = "count"
    /\ LET statement == countQuery(job.startDate, job.endDate)
           answer == Execute(statement, store)
           count == Len(answer.rows)
       IN  /\ store' = answer.table
           /\ wf' = [wf EXCEPT ![w].count = count,
                               ![w].queries = Append(@, statement.kind),
                               ![w].pc = IF count > 0 /\ Len(job.newEntries) > 0
                                         THEN "select" ELSE "admitted"]
    /\ UNCHANGED job

\* the SELECT query of checkDateRangeOverlap resolves; the comparison and the
\* decision follow without another await
SelectResolves(w) ==
    /\ wf[w].pc = "select"
    /\ LET statement == existingEntriesQuery(job.startDate, job.endDate)
           answer == Execute(statement, store)
           overlaps == OverlapsFrom(job.newEntries, answer.rows, 1, 1)
       IN  /\ store' = answer.table
           /\ wf' = [wf EXCEPT ![w].existingEntries = answer.rows,
                               ![w].overlaps = overlaps,
                               ![w].queries = Append(@, statement.kind),
                               ![w].pc = IF Len(overlaps) > 0 THEN "blocked"
                                         ELSE "admitted"]
    /\ UNCHANGED job

\* the awaited query is rejected with error; the catch block throws on
QueryRejects(w) ==
    /\ wf[w].pc \in {"count", "select"}
    /\ \E error \in StoreErrors :
           wf' = [wf EXCEPT ![w].raised = error,
                            ![w].error = CatchRethrow(error),
                            ![w].queries = Append(@, IF wf[w].pc = "count"
                                                     THEN "SELECT COUNT" ELSE "SELECT"),
                            ![w].pc = "failed"]
    /\ UNCHANGED <<store, job>>

\* the caller's write after the guard returned: insertEntries(pool, newEntries)
InsertBatch(w) ==
    /\ wf[w].pc = "admitted"
    /\ store' = insertEntries(store, job.newEntries)
    /\ wf' = [wf EXCEPT ![w].pc = "done",
                        ![w].inserted = \A k \in DOMAIN job.newEntries :
                                            entriesValidateEntry(job.newEntries[k])]
    /\ UNCHANGED job

(***************************************************************************)
(* The guard as a function of the table: one call on a table nobody        *)
(* writes to meanwhile.                                                    *)
(***************************************************************************)
\* the tables of at most n rows, in the order the table is kept in
RECURSIVE TablesUpTo(_)
TablesUpTo(n) ==
    IF n = 0 THEN {<<>>}
    ELSE LET smaller == TablesUpTo(n - 1)
         IN  smaller \cup {InsertRow(t, x) : t \in smaller, x \in Intervals}

\* await blockInsertionIfOverlap(pool, job.startDate, job.endDate, job.newEntries)
AdmitJob ==
    /\ call.op = "none"
    /\ LET r == blockInsertionIfOverlap(store, job.startDate, job.endDate, job.newEntries)
       IN  call' = [op |-> "admit", startDate |-> job.startDate, endDate |-> job.endDate,
                    newEntries |-> job.newEntries, thrown |-> r.thrown,
                    hasOverlap |-> r.thrown, overlaps |-> r.overlaps]
    /\ UNCHANGED <<store, job, wf>>

\* await checkDateRangeOverlap(pool, job.startDate, job.endDate, job.newEntries)
CheckJob ==
    /\ call.op = "none"
    /\ LET r == checkDateRangeOverlap(store, job.startDate, job.endDate, job.newEntries)
       IN  call' = [op |-> "check", startDate |-> job.startDate, endDate |-> job.endDate,
                    newEntries |-> job.newEntries, thrown |-> FALSE,
                    hasOverlap |-> r.hasOverlap, overlaps |-> r.overlaps]
    /\ UNCHANGED <<store, job, wf>>

(***************************************************************************)
(* timeRangesOverlap on its own.                                           *)
(***************************************************************************)
NotCompared == [ab |-> FALSE, ba |-> FALSE, done |-> FALSE]

OverlapIdle == ivA = [startTime |-> 0, endTime |-> NULL]
               /\ ivB = [startTime |-> 0, endTime |-> NULL]
               /\ ovl = NotCompared

Compare ==
    /\ ~ovl.done
    /\ ovl' = [ab |-> timeRangesOverlap(ivA.startTime, ivA.endTime, ivB.startTime, ivB.endTime),
               ba |-> timeRangesOverlap(ivB.startTime, ivB.endTime, ivA.startTime, ivA.endTime),
               done |-> TRUE]
    /\ UNCHANGED <<ivA, ivB>>

(***************************************************************************)
(* JavaScript Date, as the timezone and validation modules use it.         *)
(* A time value (milliseconds since the epoch) is kept as the pair         *)
(* [day, ms]: whole days since 1970-01-01 and milliseconds into that day,  *)
(* standing for day * MsPerDay + ms.                                       *)
(***************************************************************************)
MsPerDay == 24 * 60 * 60 * 1000

TAIPEI_TIMEZONE_OFFSET == 8 * 60 * 60 * 1000

\* time value t plus k milliseconds
AddMs(t, k) ==
    LET total == t.ms + k
    IN  [day |-> t.day + (total \div MsPerDay), ms |-> total % MsPerDay]

\* t1 <= t2 and t1 >= t2 on time values
TimeLE(t1, t2) == t1.day < t2.day \/ (t1.day = t2.day /\ t1.ms <= t2.ms)

TimeGE(t1, t2) == TimeLE(t2, t1)

\* Date.UTC(year, month - 1, day): the day number of a civil date
DaysFromCivil(year, month, day) ==
    LET y == IF month <= 2 THEN year - 1 ELSE year
        era == y \div 400
        yoe == y - era * 400
        mp == IF month > 2 THEN month - 3 ELSE month + 9
        doy == ((153 * mp + 2) \div 5) + day - 1
        doe == yoe * 365 + (yoe \div 4) - (yoe \div 100) + doy
    IN  era * 146097 + doe - 719468

\* the year, month and day of a day number (the date fields of toISOString)
CivilFromDays(z) ==
    LET zz == z + 719468
        era == zz \div 146097
        doe == zz - era * 146097
        yoe == (doe - (doe \div 1460) + (doe \div 36524) - (doe \div 146096)) \div 365
        doy == doe - (365 * yoe + (yoe \div 4) - (yoe \div 100))
        mp == (5 * doy + 2) \div 153
        d == doy - ((153 * mp + 2) \div 5) + 1
        m == IF mp < 10 THEN mp + 3 ELSE mp - 9
    IN  [y |-> IF m <= 2 THEN yoe + era * 400 + 1 ELSE yoe + era * 400, mo |-> m, d |-> d]

\* Date.UTC(year, month - 1, day, hours, minutes, seconds, ms)
DateUTC(year, month, day, hours, minutes, seconds, millis) ==
    [day |-> DaysFromCivil(year, month, day),
     ms |-> ((hours * 60 + minutes) * 60 + seconds) * 1000 + millis]

(***************************************************************************)
(* Timestamp strings.  An ISO string is the record of its fields:          *)
(*   form "iso", y-mo-dTh:mi:s, frac = it carries ".sss" (then ms), and    *)
(*   tz = "Z", "+08:00" or "" (no designator).                             *)
(* form "garbage" is a string no parser accepts, form "absent" a missing   *)
(* (undefined, null or empty) value.                                       *)
(***************************************************************************)
IsoString(y, mo, d, h, mi, sec, ms, frac, tz) ==
    [form |-> "iso", y |-> y, mo |-> mo, d |-> d, h |-> h, mi |-> mi, s |-> sec,
     ms |-> ms, frac |-> frac, tz |-> tz]

Garbage == [form |-> "garbage", y |-> 0, mo |-> 0, d |-> 0, h |-> 0, mi |-> 0, s |-> 0,
            ms |-> 0, frac |-> FALSE, tz |-> ""]

Absent == [Garbage EXCEPT !.form = "absent"]

\* date.toISOString(): "YYYY-MM-DDTHH:mm:ss.sssZ"
toISOString(t) ==
    LET c == CivilFromDays(t.day)
    IN  IsoString(c.y, c.mo, c.d,
                  t.ms \div 3600000, (t.ms \div 60000) % 60, (t.ms \div 1000) % 60,
                  t.ms % 1000, TRUE, "Z")

\* str.slice(0, 19) + suffix: the fraction and the designator are cut off
Slice19Plus(str, suffix) == [str EXCEPT !.ms = 0, !.frac = FALSE, !.tz = suffix]

\* new Date(str).getTime() of an ISO string: with "Z" the fields are UTC, with
\* an offset they are that many hours ahead of UTC, with no designator they
\* are the host's local time
ParseDate(str, host) ==
    LET fields == DateUTC(str.y, str.mo, str.d, str.h, str.mi, str.s, str.ms)
    IN  IF str.tz = "Z" THEN fields
        ELSE IF str.tz = "+08:00" THEN AddMs(fields, 0 - TAIPEI_TIMEZONE_OFFSET)
        ELSE AddMs(fields, 0 - host * 60000)

\* isNaN(new Date(str).getTime())
IsNaNDate(str) == str.form # "iso"

(***************************************************************************)
(* The timezone module.  A thrown error is the value Thrown.               *)
(***************************************************************************)
Thrown == [form |-> "error"]

\* the conversion with the 8 hours left out (the UTC date, not the Taipei one)
convertToTaipeiTimeNoShift(utcTimestamp) ==
    IF utcTimestamp.form = "absent" \/ IsNaNDate(utcTimestamp) THEN Thrown
    ELSE LET hasTimezone == utcTimestamp.tz = "Z" \/ utcTimestamp.tz = "+08:00"
             normalizedTimestamp == IF hasTimezone THEN utcTimestamp
                                    ELSE [utcTimestamp EXCEPT !.tz = "Z"]
             utcDate == ParseDate(normalizedTimestamp, 0)
         IN  Slice19Plus(toISOString(utcDate), "+08:00")

convertToTaipeiTime(utcTimestamp) ==
    IF utcTimestamp.form = "absent" \/ IsNaNDate(utcTimestamp) THEN Thrown
    ELSE LET hasTimezone == utcTimestamp.tz = "Z" \/ utcTimestamp.tz = "+08:00"
             normalizedTimestamp == IF hasTimezone THEN utcTimestamp
                                    ELSE [utcTimestamp EXCEPT !.tz = "Z"]
             utcDate == ParseDate(normalizedTimestamp, 0)
             taipeiDate == AddMs(utcDate, TAIPEI_TIMEZONE_OFFSET)
         IN  Slice19Plus(toISOString(taipeiDate), "+08:00")

\* the part before "T": the calendar date [y, mo, d]
getTaipeiCalendarDate(taipeiTimestamp) ==
    IF taipeiTimestamp.form # "iso" THEN Thrown
    ELSE [form |-> "date", y |-> taipeiTimestamp.y, mo |-> taipeiTimestamp.mo,
          d |-> taipeiTimestamp.d]

\* the boundaries with the end put at 24:00:00.000 local, the next midnight
calculateDateBoundariesNextMidnight(taipeiDate) ==
    LET taipeiStartUTC == DateUTC(taipeiDate.y, taipeiDate.mo, taipeiDate.d, 0, 0, 0, 0)
        utcStartOfDay == AddMs(taipeiStartUTC, 0 - TAIPEI_TIMEZONE_OFFSET)
        taipeiEndUTC == DateUTC(taipeiDate.y, taipeiDate.mo, taipeiDate.d, 24, 0, 0, 0)
        utcEndOfDay == AddMs(taipeiEndUTC, 0 - TAIPEI_TIMEZONE_OFFSET)
    IN  [startUTC |-> Slice19Plus(toISOString(utcStartOfDay), "Z"),
         endUTC |-> toISOString(utcEndOfDay),
         taipeiDate |-> taipeiDate,
         startTaipei |-> IsoString(taipeiDate.y, taipeiDate.mo, taipeiDate.d,
                                   0, 0, 0, 0, FALSE, "+08:00"),
         endTaipei |-> IsoString(taipeiDate.y, taipeiDate.mo, taipeiDate.d,
                                 23, 59, 59, 0, FALSE, "+08:00")]

\* the boundaries with endUTC formatted like startUTC (milliseconds cut off)
calculateDateBoundariesEndSliced(taipeiDate) ==
    LET taipeiStartUTC == DateUTC(taipeiDate.y, taipeiDate.mo, taipeiDate.d, 0, 0, 0, 0)
        utcStartOfDay == AddMs(taipeiStartUTC, 0 - TAIPEI_TIMEZONE_OFFSET)
        taipeiEndUTC == DateUTC(taipeiDate.y, taipeiDate.mo, taipeiDate.d, 23, 59, 59, 999)
        utcEndOfDay == AddMs(taipeiEndUTC, 0 - TAIPEI_TIMEZONE_OFFSET)
    IN  [startUTC |-> Slice19Plus(toISOString(utcStartOfDay), "Z"),
         endUTC |-> Slice19Plus(toISOString(utcEndOfDay), "Z"),
         taipeiDate |-> taipeiDate,
         startTaipei |-> IsoString(taipeiDate.y, taipeiDate.mo, taipeiDate.d,
                                   0, 0, 0, 0, FALSE, "+08:00"),
         endTaipei |-> IsoString(taipeiDate.y, taipeiDate.mo, taipeiDate.d,
                                 23, 59, 59, 0, FALSE, "+08:00")]

calculateDateBoundaries(taipeiDate) ==
    LET taipeiStartUTC == DateUTC(taipeiDate.y, taipeiDate.mo, taipeiDate.d, 0, 0, 0, 0)
        utcStartOfDay == AddMs(taipeiStartUTC, 0 - TAIPEI_TIMEZONE_OFFSET)
        taipeiEndUTC == DateUTC(taipeiDate.y, taipeiDate.mo, taipeiDate.d, 23, 59, 59, 999)
        utcEndOfDay == AddMs(taipeiEndUTC, 0 - TAIPEI_TIMEZONE_OFFSET)
    IN  [startUTC |-> Slice19Plus(toISOString(utcStartOfDay), "Z"),
         endUTC |-> toISOString(utcEndOfDay),
         taipeiDate |-> taipeiDate,
         startTaipei |-> IsoString(taipeiDate.y, taipeiDate.mo, taipeiDate.d,
                                   0, 0, 0, 0, FALSE, "+08:00"),
         endTaipei |-> IsoString(taipeiDate.y, taipeiDate.mo, taipeiDate.d,
                                 23, 59, 59, 0, FALSE, "+08:00")]

\* the test with the end boundary left out (timestamp < endBoundary)
isWithinDateBoundariesEndExclusive(utcTimestamp, boundaries, host) ==
    IF utcTimestamp.form = "absent" \/ IsNaNDate(utcTimestamp) THEN Thrown
    ELSE LET timestamp == ParseDate(utcTimestamp, host)
             startBoundary == ParseDate(boundaries.startUTC, host)
             endBoundary == ParseDate(boundaries.endUTC, host)
         IN  TimeGE(timestamp, startBoundary) /\ TimeLE(timestamp, endBoundary)
             /\ timestamp # endBoundary

\* the test with the start boundary left out (timestamp > startBoundary)
isWithinDateBoundariesStartExclusive(utcTimestamp, boundaries, host) ==
    IF utcTimestamp.form = "absent" \/ IsNaNDate(utcTimestamp) THEN Thrown
    ELSE LET timestamp == ParseDate(utcTimestamp, host)
             startBoundary == ParseDate(boundaries.startUTC, host)
             endBoundary == ParseDate(boundaries.endUTC, host)
         IN  TimeGE(timestamp, startBoundary) /\ TimeLE(timestamp, endBoundary)
             /\ timestamp # startBoundary

\* "Z" is appended only to a string with no "Z", no "+" and no "-"; the date
\* part of an ISO string has "-" in it, so an ISO string goes to the parser
\* as it is, and without a designator it is read as the host's local time
isWithinDateBoundaries(utcTimestamp, boundaries, host) ==
    IF utcTimestamp.form = "absent" \/ IsNaNDate(utcTimestamp) THEN Thrown
    ELSE LET includesHyphen == utcTimestamp.form = "iso"
             normalizedTimestamp ==
                 IF utcTimestamp.tz # "Z" /\ utcTimestamp.tz # "+08:00" /\ ~includesHyphen
                 THEN [utcTimestamp EXCEPT !.tz = "Z"]
                 ELSE utcTimestamp
             timestamp == ParseDate(normalizedTimestamp, host)
             startBoundary == ParseDate(boundaries.startUTC, host)
             endBoundary == ParseDate(boundaries.endUTC, host)
         IN  TimeGE(timestamp, startBoundary) /\ TimeLE(timestamp, endBoundary)

(***************************************************************************)
(* Calendar dates given to the timezone module.                            *)
(***************************************************************************)
StartYear == 2024     \* the default START_DATE is 2024-01-01

LastYear == 2100      \* the last year validateTimestampFormat accepts

IsLeapYear(y) == (y % 4 = 0 /\ y % 100 # 0) \/ y % 400 = 0

DaysInMonth(y, mo) ==
    IF mo = 2 THEN (IF IsLeapYear(y) THEN 29 ELSE 28)
    ELSE IF mo \in {4, 6, 9, 11} THEN 30 ELSE 31

CalendarDate(y, mo, d) == [form |-> "date", y |-> y, mo |-> mo, d |-> d]

Years == (StartYear..(StartYear + YearSpan - 1)) \cup {LastYear}

Dates == {dt \in {CalendarDate(y, mo, d) : y \in Years, mo \in 1..12, d \in 1..31} :
             dt.d <= DaysInMonth(dt.y, dt.mo)}

\* the calendar date after dt, by the rules of the Gregorian calendar
NextDate(dt) ==
    IF dt.d < DaysInMonth(dt.y, dt.mo) THEN CalendarDate(dt.y, dt.mo, dt.d + 1)
    ELSE IF dt.mo < 12 THEN CalendarDate(dt.y, dt.mo + 1, 1)
    ELSE CalendarDate(dt.y + 1, 1, 1)

HostOffsets == {0, 480}

NoBoundaries == [form |-> "none"]

NoProbe == [ts |-> Absent, within |-> FALSE, calendarDate |-> Thrown, done |-> FALSE]

NoCal == [taipeiDate |-> NoBoundaries, boundaries |-> NoBoundaries, previous |-> NoBoundaries]

CalendarIdle == hostOffset = 0 /\ cal = NoCal /\ probe = NoProbe

\* calculateDateBoundaries(taipeiDate) for the date chosen at the start
CalculateBoundaries ==
    /\ cal.taipeiDate # NoBoundaries
    /\ cal.boundaries = NoBoundaries
    /\ cal' = [cal EXCEPT !.boundaries = calculateDateBoundaries(cal.taipeiDate)]
    /\ UNCHANGED <<hostOffset, probe>>

\* calculateDateBoundaries for the day after the last one (a walk over a date
\* range); the last day's boundaries are kept in previous
CalculateNextDay ==
    /\ cal.boundaries # NoBoundaries
    /\ cal.previous = NoBoundaries
    /\ ~probe.done
    /\ NextDate(cal.taipeiDate) \in Dates
    /\ cal' = [taipeiDate |-> NextDate(cal.taipeiDate),
               boundaries |-> calculateDateBoundaries(NextDate(cal.taipeiDate)),
               previous |-> cal.boundaries]
    /\ UNCHANGED <<hostOffset, probe>>

\* the timestamps tested against boundaries b: its two ends as it gives them,
\* the instants one millisecond outside them, the seconds next to them, and
\* the start second written without a designator
ProbeTimestamps(b) ==
    LET startT == ParseDate(b.startUTC, 0)
        endT == ParseDate(b.endUTC, 0)
    IN  {b.startUTC, b.endUTC,
         toISOString(AddMs(startT, 0 - 1)), toISOString(AddMs(endT, 1)),
         Slice19Plus(toISOString(AddMs(startT, 0 - 1000)), "Z"),
         Slice19Plus(toISOString(endT), "Z"),
         Slice19Plus(toISOString(AddMs(startT, 12 * 3600000)), "Z"),
         Slice19Plus(toISOString(startT), "")}

\* isWithinDateBoundaries(ts, boundaries), and the Taipei calendar date of ts
\* by getTaipeiCalendarDate(convertToTaipeiTime(ts))
ProbeBoundaries ==
    /\ cal.boundaries # NoBoundaries
    /\ ~probe.done
    /\ \E ts \in ProbeTimestamps(cal.boundaries) :
           probe' = [ts |-> ts,
                     within |-> isWithinDateBoundaries(ts, cal.boundaries, hostOffset),
                     calendarDate |-> getTaipeiCalendarDate(convertToTaipeiTime(ts)),
                     done |-> TRUE]
    /\ UNCHANGED <<hostOffset, cal>>

(***************************************************************************)
(* The validation module.  A raw record is [form, start, end]: form        *)
(* "object" with its start and end strings, or form "null" for a value     *)
(* that is no object.  The entry functions read the clock and the host's   *)
(* time zone; here these are the parameters clock and host.                *)
(***************************************************************************)
RawEntry(start, end) == [form |-> "object", start |-> start, end |-> end]

NotAnObject == [form |-> "null", start |-> Absent, end |-> Absent]

\* the host's local calendar date of time value t (getFullYear, getMonth, getDate)
LocalDate(t, host) == CivilFromDays(AddMs(t, host * 60000).day)

validateTimestampFormat(timestamp, host) ==
    IF timestamp.form # "iso" THEN FALSE
    ELSE IF timestamp.frac THEN FALSE
    ELSE LET date == ParseDate(timestamp, host)
             year == LocalDate(date, host).y
         IN  ~(year < 1970 \/ year > LastYear)

\* new Date(process.env.START_DATE || "2024-01-01"): a date-only string is UTC
startDate == DateUTC(StartYear, 1, 1, 0, 0, 0, 0)

\* new Date(now.getFullYear() + 1, now.getMonth(), now.getDate()): the host's
\* local midnight of today's date next year
maxFutureDate(clock, host) ==
    LET today == LocalDate(clock, host)
    IN  AddMs(DateUTC(today.y + 1, today.mo, today.d, 0, 0, 0, 0), 0 - host * 60000)

validateTimestampRange(timestamp, clock, host) ==
    IF ~validateTimestampFormat(timestamp, host) THEN FALSE
    ELSE LET date == ParseDate(timestamp, host)
         IN  TimeGE(date, startDate) /\ TimeLE(date, maxFutureDate(clock, host))

isValidTimeOrder(startTime, endTime, host) ==
    IF startTime.form = "absent" \/ endTime.form = "absent" THEN TRUE
    ELSE IF ~validateTimestampFormat(startTime, host)
            \/ ~validateTimestampFormat(endTime, host) THEN FALSE
    ELSE TimeLE(ParseDate(startTime, host), ParseDate(endTime, host))

validateEntry(entry, clock, host) ==
    IF entry.form # "object" THEN FALSE
    ELSE IF entry.start.form = "absent" THEN FALSE
    ELSE IF ~validateTimestampFormat(entry.start, host) THEN FALSE
    ELSE IF entry.end.form # "absent" /\ ~validateTimestampFormat(entry.end, host) THEN FALSE
    ELSE IF ~validateTimestampRange(entry.start, clock, host) THEN FALSE
    ELSE IF entry.end.form # "absent" /\ ~validateTimestampRange(entry.end, clock, host)
         THEN FALSE
    ELSE isValidTimeOrder(entry.start, entry.end, host)

\* getTaipeiCalendarDate(convertToTaipeiTime(today.toISOString()))
todayTaipeiDate(clock) == getTaipeiCalendarDate(convertToTaipeiTime(toISOString(clock)))

\* the test both entry functions make: the record has a start, the start
\* converts, and its Taipei calendar date is today's
IsFromToday(entry, clock) ==
    /\ entry.form = "object"
    /\ entry.start.form # "absent"
    /\ convertToTaipeiTime(entry.start) # Thrown
    /\ getTaipeiCalendarDate(convertToTaipeiTime(entry.start)) = todayTaipeiDate(clock)

filterTodayEntries(entries, clock) ==
    SelectSeq(entries, LAMBDA entry :
        /\ entry.form = "object"
        /\ entry.start.form # "absent"
        /\ convertToTaipeiTime(entry.start) # Thrown
        /\ getTaipeiCalendarDate(convertToTaipeiTime(entry.start)) # todayTaipeiDate(clock))

\* the message validateEntries gives for a record validateEntry refused
errorMessage(entry, clock, host) ==
    IF entry.form # "object" THEN "Entry is not a valid object"
    ELSE IF entry.start.form = "absent" THEN "Missing required field: start"
    ELSE IF ~validateTimestampFormat(entry.start, host) THEN "Invalid timestamp format"
    ELSE IF entry.end.form # "absent" /\ ~validateTimestampFormat(entry.end, host)
         THEN "Invalid timestamp format"
    ELSE IF \/ ~validateTimestampRange(entry.start, clock, host)
            \/ entry.end.form # "absent" /\ ~validateTimestampRange(entry.end, clock, host)
         THEN "Timestamp out of range"
    ELSE IF ~isValidTimeOrder(entry.start, entry.end, host)
         THEN "End time must be after start time"
    ELSE "Invalid entry"

EmptyResult == [validEntries |-> <<>>, filteredCount |-> 0, invalidCount |-> 0, errors |-> <<>>]

\* the loop with a record whose start does not convert passed over in silence
RECURSIVE ValidateFromSkipUnconvertible(_, _, _, _, _)
ValidateFromSkipUnconvertible(entries, i, result, clock, host) ==
    IF i > Len(entries) THEN result
    ELSE LET entry == entries[i]
             next ==
                 IF IsFromToday(entry, clock)
                 THEN [result EXCEPT
                          !.filteredCount = @ + 1,
                          !.errors = Append(@, [index |-> i,
                                 message |-> "Filtered out (incomplete data from today)"])]
                 ELSE IF entry.form = "object" /\ entry.start.form # "absent"
                         /\ convertToTaipeiTime(entry.start) = Thrown
                 THEN result
                 ELSE IF validateEntry(entry, clock, host)
                 THEN [result EXCEPT !.validEntries = Append(@, entry)]
                 ELSE [result EXCEPT
                          !.invalidCount = @ + 1,
                          !.errors = Append(@, [index |-> i,
                                 message |-> errorMessage(entry, clock, host)])]
         IN  ValidateFromSkipUnconvertible(entries, i + 1, next, clock, host)

\* the loop of validateEntries from index i on, result being what it has so far
RECURSIVE ValidateFrom(_, _, _, _, _)
ValidateFrom(entries, i, result, clock, host) ==
    IF i > Len(entries) THEN result
    ELSE LET entry == entries[i]
             next ==
                 IF IsFromToday(entry, clock)
                 THEN [result EXCEPT
                          !.filteredCount = @ + 1,
                          !.errors = Append(@, [index |-> i,
                                 message |-> "Filtered out (incomplete data from today)"])]
                 ELSE IF validateEntry(entry, clock, host)
                 THEN [result EXCEPT !.validEntries = Append(@, entry)]
                 ELSE [result EXCEPT
                          !.invalidCount = @ + 1,
                          !.errors = Append(@, [index |-> i,
                                 message |-> errorMessage(entry, clock, host)])]
         IN  ValidateFrom(entries, i + 1, next, clock, host)

validateEntries(entries, clock, host) == ValidateFrom(entries, 1, EmptyResult, clock, host)

(***************************************************************************)
(* The clock readings and the raw records the validation module is given.  *)
(***************************************************************************)
\* 2026-01-14T00:00:00Z, a UTC midnight, and 2026-06-30T17:45:00Z, an
\* instant of the next Taipei day
Clocks == {DateUTC(2026, 1, 14, 0, 0, 0, 0), DateUTC(2026, 6, 30, 17, 45, 0, 0)}

\* the string "YYYY-MM-DDTHH:mm:ssZ" of time value t
ZString(t) == Slice19Plus(toISOString(t), "Z")

\* Taipei's midnight at the start of the Taipei day the clock is in
TaipeiMidnight(clock) ==
    AddMs([day |-> AddMs(clock, TAIPEI_TIMEZONE_OFFSET).day, ms |-> 0],
          0 - TAIPEI_TIMEZONE_OFFSET)

\* the same UTC date and time of day one year after the clock
OneYearFrom(clock) ==
    LET c == CivilFromDays(clock.day)
    IN  [day |-> DaysFromCivil(c.y + 1, c.mo, c.d), ms |-> clock.ms]

\* starts: the last second of yesterday (Taipei), the first and last seconds
\* of today, the first of tomorrow, the seconds around both ends of the
\* accepted window, one year from now; one without a designator, one with
\* milliseconds, one unparsable, one missing
StartStrings(clock, host) ==
    LET midnight == TaipeiMidnight(clock)
    IN  {ZString(AddMs(midnight, 0 - 1000)), ZString(midnight),
         ZString(AddMs(midnight, MsPerDay - 1000)), ZString(AddMs(midnight, MsPerDay)),
         ZString(AddMs(startDate, 0 - 1000)), ZString(startDate),
         ZString(maxFutureDate(clock, host)),
         ZString(AddMs(maxFutureDate(clock, host), 1000)),
         ZString(OneYearFrom(clock)),
         Slice19Plus(toISOString(midnight), ""),
         toISOString(AddMs(midnight, 0 - 1000)),
         Garbage, Absent}

\* <<start, end>> of the records that have an end
ClosedPairs(clock, host) ==
    LET midnight == TaipeiMidnight(clock)
        yesterday == ZString(AddMs(midnight, 0 - 1000))
        tomorrow == ZString(AddMs(midnight, MsPerDay))
    IN  {<<ZString(midnight), tomorrow>>,
         <<ZString(midnight), Garbage>>,
         <<yesterday, ZString(AddMs(midnight, MsPerDay - 1000))>>,
         <<yesterday, yesterday>>,
         <<tomorrow, yesterday>>,
         <<yesterday, Garbage>>,
         <<yesterday, toISOString(midnight)>>,
         <<yesterday, ZString(maxFutureDate(clock, host))>>,
         <<yesterday, ZString(OneYearFrom(clock))>>,
         <<ZString(startDate), ZString(AddMs(maxFutureDate(clock, host), 1000))>>,
         <<ZString(AddMs(startDate, 0 - 1000)), yesterday>>}

RawEntries(clock, host) ==
    {RawEntry(start, Absent) : start \in StartStrings(clock, host)}
    \cup {RawEntry(p[1], p[2]) : p \in ClosedPairs(clock, host)}
    \cup {NotAnObject}

RECURSIVE ArraysUpTo(_, _)
ArraysUpTo(elements, n) ==
    IF n = 0 THEN {<<>>}
    ELSE LET shorter == ArraysUpTo(elements, n - 1)
         IN  shorter \cup {Append(a, x) : a \in {b \in shorter : Len(b) = n - 1},
                                         x \in elements}

NoOutput == [op |-> "none", index |-> 0, accepted |-> FALSE, kept |-> <<>>,
             result |-> EmptyResult]

ValidationIdle == now = DateUTC(2026, 1, 14, 0, 0, 0, 0) /\ input = <<>> /\ out = NoOutput

\* validateEntry(input[i])
ValidateEntry ==
    /\ out.op = "none"
    /\ \E i \in DOMAIN input :
           out' = [NoOutput EXCEPT !.op = "validateEntry", !.index = i,
                                   !.accepted = validateEntry(input[i], now, hostOffset)]
    /\ UNCHANGED <<hostOffset, now, input>>

\* filterTodayEntries(input)
FilterTodayEntries ==
    /\ out.op = "none"
    /\ out' = [NoOutput EXCEPT !.op = "filterTodayEntries",
                               !.kept = filterTodayEntries(input, now)]
    /\ UNCHANGED <<hostOffset, now, input>>

\* validateEntries(input)
ValidateEntries ==
    /\ out.op = "none"
    /\ out' = [NoOutput EXCEPT !.op = "validateEntries",
                               !.result = validateEntries(input, now, hostOffset)]
    /\ UNCHANGED <<hostOffset, now, input>>

(***************************************************************************)
(* The fetch command (actions/fetchDateRange.js).  It exports the entries  *)
(* of startDate..endDate from timewarrior, asks the table how many rows    *)
(* start in the range and, if none does, INSERTs every exported entry.     *)
(* The "startTime" column is a TIMESTAMP (without time zone): a value      *)
(* written or compared is the wall-clock reading of the string given, a    *)
(* zone designator in it is ignored.  The export gives UTC strings, so a   *)
(* stored value is the UTC reading of the entry's start.                   *)
(***************************************************************************)
FetchDays == 2      \* fetch ranges lie within FetchDays days from StartYear-01-01
FetchBatch == 1     \* most entries in one export
FetchRows == 1      \* most rows in the table when the command starts

FetchDates == {CalendarDate(StartYear, 1, d) : d \in 1..FetchDays}

\* dates compare as their "YYYY-MM-DD" strings do
DateLE(d1, d2) == DaysFromCivil(d1.y, d1.mo, d1.d) <= DaysFromCivil(d2.y, d2.mo, d2.d)

\* the value a TIMESTAMP column takes from a string: its fields as they are
TimestampIn(str) == DateUTC(str.y, str.mo, str.d, str.h, str.mi, str.s, str.ms)

\* starts an export can hold: for each date, the first and last second of the
\* Taipei day, the first and last second of the UTC day, and the second after
\* the Taipei day
FetchStarts ==
    UNION {LET midnight == DateUTC(d.y, d.mo, d.d, 0, 0, 0, 0)
           IN  {Slice19Plus(toISOString(AddMs(midnight, k)), "Z") :
                    k \in {0 - TAIPEI_TIMEZONE_OFFSET, 0, 16 * 3600000 - 1000,
                           16 * 3600000, MsPerDay - 1000}} : d \in FetchDates}

\* exports of at most n entries, each the record of its start
RECURSIVE ExportsUpTo(_)
ExportsUpTo(n) ==
    IF n = 0 THEN {<<>>}
    ELSE LET shorter == ExportsUpTo(n - 1)
         IN  shorter \cup {Append(data, [start |-> s]) : data \in shorter, s \in FetchStarts}

\* tables of at most n rows written by earlier runs
RECURSIVE FetchTablesUpTo(_)
FetchTablesUpTo(n) ==
    IF n = 0 THEN {<<>>}
    ELSE LET smaller == FetchTablesUpTo(n - 1)
         IN  smaller \cup {Append(rows, [startTime |-> TimestampIn(s)]) :
                               rows \in smaller, s \in FetchStarts}

\* SELECT COUNT(*) ... WHERE "startTime" >= $1 AND "startTime" < $2 with
\* $1 = startDate + "T00:00:00" and $2 = endDate + "T23:59:59"
existingCheck(rows, rangeStart, rangeEnd) ==
    LET from == TimestampIn(IsoString(rangeStart.y, rangeStart.mo, rangeStart.d,
                                      0, 0, 0, 0, FALSE, ""))
        to == TimestampIn(IsoString(rangeEnd.y, rangeEnd.mo, rangeEnd.d,
                                    23, 59, 59, 0, FALSE, ""))
    IN  Cardinality({i \in DOMAIN rows :
                        TimeGE(rows[i].startTime, from) /\ TimeLE(rows[i].startTime, to)
                        /\ rows[i].startTime # to})

NoFetch == [pc |-> "idle", startDate |-> NoBoundaries, endDate |-> NoBoundaries,
            data |-> <<>>, table |-> <<>>, before |-> <<>>, statements |-> <<>>,
            next |-> 0, insertedCount |-> 0]

FetchIdle == fetch = NoFetch

\* the export is read: with no entries the run ends, else the existence
\* check is sent and, on a positive count, the run ends blocked
FetchExistingCheck ==
    /\ fetch.pc = "export"
    /\ fetch' =
         IF Len(fetch.data) = 0 THEN [fetch EXCEPT !.pc = "done"]
         ELSE [fetch EXCEPT
                 !.statements = Append(@, "SELECT COUNT"),
                 !.pc = IF existingCheck(fetch.table, fetch.startDate, fetch.endDate) > 0
                        THEN "blocked" ELSE "groupTypes"]

\* getGroupTypesForDates: a group type is asked for each date; an empty
\* answer cancels the run
FetchGroupTypes ==
    /\ fetch.pc = "groupTypes"
    /\ \E answered \in BOOLEAN :
           fetch' = [fetch EXCEPT !.pc = IF answered THEN "insert" ELSE "cancelled",
                                  !.next = 1]

\* one turn of the insert loop: the INSERT of the next entry resolves
FetchInsert ==
    /\ fetch.pc = "insert"
    /\ fetch.next <= Len(fetch.data)
    /\ fetch' = [fetch EXCEPT
                   !.statements = Append(@, "INSERT"),
                   !.table = Append(@, [startTime |-> TimestampIn(fetch.data[fetch.next].start)]),
                   !.insertedCount = @ + 1,
                   !.next = @ + 1,
                   !.pc = IF fetch.next = Len(fetch.data) THEN "done" ELSE "insert"]

\* one turn of the insert loop: the INSERT is rejected, the error is logged
\* and the loop goes on
FetchInsertFails ==
    /\ fetch.pc = "insert"
    /\ fetch.next <= Len(fetch.data)
    /\ fetch' = [fetch EXCEPT
                   !.statements = Append(@, "INSERT"),
                   !.next = @ + 1,
                   !.pc = IF fetch.next = Len(fetch.data) THEN "done" ELSE "insert"]

(***************************************************************************)
(* The "Insertion blocked" message.  formatOverlapError builds it from     *)
(* overlap details; blockInsertionIfOverlap builds its own from the result *)
(* of checkDateRangeOverlap.  A message is the record of its parts: the    *)
(* headline's counts and words, one line per conflict, the closing         *)
(* sentence.  A window is <<HH, mm>> or "ongoing".                         *)
(***************************************************************************)
MsgMaxT == 1         \* entries of a message start and end at instants 0..MsgMaxT
MaxConflicts == 2    \* most overlap records in the details

\* the timestamp of instant t: 09:15 UTC on StartYear-01-01 and 8 hours more
\* per step, so that the Taipei reading falls on the next day for t = 1
InstantString(t) ==
    Slice19Plus(toISOString(AddMs(DateUTC(StartYear, 1, 1, 9, 15, 0, 0), t * 8 * 3600000)), "Z")

\* an entry as the message builders read it; a null endTime is Absent
MessageEntry(sessionName, x) ==
    [sessionName |-> sessionName,
     startTime |-> InstantString(x.startTime),
     endTime |-> IF x.endTime = NULL THEN Absent ELSE InstantString(x.endTime)]

MessageIntervals ==
    {x \in [startTime : 0..MsgMaxT, endTime : (0..MsgMaxT) \cup {NULL}] : ValidInterval(x)}

\* the records checkDateRangeOverlap can push: a candidate and a row that overlap
OverlapRecords ==
    {[newEntry |-> MessageEntry("new_meeting", a),
      existingEntry |-> MessageEntry("existing_work", b),
      overlapType |-> overlapType(a, b)] :
        <<a, b>> \in {p \in MessageIntervals \X MessageIntervals :
                         timeRangesOverlap(p[1].startTime, p[1].endTime,
                                           p[2].startTime, p[2].endTime)}}

RECURSIVE OverlapListsUpTo(_)
OverlapListsUpTo(n) ==
    IF n = 0 THEN {<<>>}
    ELSE LET shorter == OverlapListsUpTo(n - 1)
         IN  shorter \cup {Append(l, r) : l \in shorter, r \in OverlapRecords}

\* new Date(timestamp).toISOString().slice(11, 16) with the 8 hours of
\* toTaipeiTime added first
ClockTaipei(timestamp) ==
    LET iso == toISOString(AddMs(ParseDate(timestamp, 0), TAIPEI_TIMEZONE_OFFSET))
    IN  <<iso.h, iso.mi>>

\* new Date(timestamp).toISOString().slice(11, 16): "HH:mm" of the UTC reading
ClockOf(timestamp) ==
    LET iso == toISOString(ParseDate(timestamp, 0))
    IN  <<iso.h, iso.mi>>

\* "(HH:mm-HH:mm)" or "(HH:mm-ongoing)"
WindowOf(entry) ==
    [from |-> ClockOf(entry.startTime),
     to |-> IF entry.endTime.form = "absent" THEN "ongoing" ELSE ClockOf(entry.endTime)]

\* `${i + 1}. New entry "..." (...) conflicts with existing "..." (...)`
ConflictLine(i, overlap) ==
    [number |-> i,
     newLabel |-> overlap.newEntry.sessionName,
     newWindow |-> WindowOf(overlap.newEntry),
     existingLabel |-> overlap.existingEntry.sessionName,
     existingWindow |-> WindowOf(overlap.existingEntry)]

Remediation ==
    "Please resolve conflicts before proceeding. Consider using a different date range or removing conflicting existing entries."

formatOverlapError(overlapDetails) ==
    LET overlaps == overlapDetails.overlaps
        overlapCount == Len(overlaps)
    IN  [overlapCount |-> overlapCount,
         overlapWord |-> IF overlapCount > 1 THEN "overlaps" ELSE "overlap",
         newEntriesCount |-> overlapDetails.newEntriesCount,
         newWord |-> IF overlapDetails.newEntriesCount > 1 THEN "entries" ELSE "entry",
         existingCount |-> overlapDetails.existingCount,
         existingWord |-> IF overlapDetails.existingCount > 1 THEN "entries" ELSE "entry",
         conflicts |-> [i \in 1..overlapCount |-> ConflictLine(i, overlaps[i])],
         closing |-> Remediation]

\* the message of the error blockInsertionIfOverlap throws: the same text with
\* "existing entries" in the place of the count of existing entries
blockedMessage(overlaps, newEntriesCount) ==
    LET overlapCount == Len(overlaps)
    IN  [overlapCount |-> overlapCount,
         overlapWord |-> IF overlapCount > 1 THEN "overlaps" ELSE "overlap",
         newEntriesCount |-> newEntriesCount,
         newWord |-> IF newEntriesCount > 1 THEN "entries" ELSE "entry",
         existingCount |-> NULL,
         existingWord |-> "entries",
         conflicts |-> [i \in 1..overlapCount |-> ConflictLine(i, overlaps[i])],
         closing |-> Remediation]

NoDetails == [overlaps |-> <<>>, existingCount |-> 0, newEntriesCount |-> 0]

NoMessage == [op |-> "none", details |-> NoDetails, text |-> <<>>]

MessageIdle == msg = NoMessage

\* formatOverlapError(overlapDetails)
FormatOverlapError ==
    /\ msg.op = "pending"
    /\ msg' = [msg EXCEPT !.op = "formatOverlapError",
                          !.text = formatOverlapError(msg.details)]

\* blockInsertionIfOverlap on its way to `throw new Error(message)`: the
\* result of checkDateRangeOverlap has at least one record
ThrowBlocked ==
    /\ msg.op = "pending"
    /\ Len(msg.details.overlaps) > 0
    /\ msg' = [msg EXCEPT !.op = "blockInsertionIfOverlap",
                          !.text = blockedMessage(msg.details.overlaps,
                                                  msg.details.newEntriesCount)]

(***************************************************************************)
(* insertEntry and insertEntries step by step (database/entries.js).       *)
(* Every await is a step: pool.connect(), then BEGIN, the INSERTs, COMMIT  *)
(* or ROLLBACK as statements of the client, each of which the store may    *)
(* reject.  Rows INSERTed inside the transaction are pending until COMMIT  *)
(* resolves; only then are they rows of the table.                         *)
(***************************************************************************)
TxBatch == 2     \* most entries given to insertEntries

\* entries a caller may pass: valid ones and ones validateEntry rejects
TxEntries == [startTime : GuardInstants, endTime : GuardInstants \cup {NULL}]

RECURSIVE TxBatchesUpTo(_)
TxBatchesUpTo(n) ==
    IF n = 0 THEN {<<>>}
    ELSE LET shorter == TxBatchesUpTo(n - 1)
         IN  shorter \cup {Append(b, x) : b \in shorter, x \in TxEntries}

\* the validation loop that stops short of the last entry
ValidatedBeforeConnectButLast(entries) ==
    \A k \in DOMAIN entries : k < Len(entries) => entriesValidateEntry(entries[k])

\* for (const entry of entries) validateEntry(entry): TRUE if none throws
ValidatedBeforeConnect(entries) ==
    \A k \in DOMAIN entries : entriesValidateEntry(entries[k])

\* a catch block that rolls back only when the transaction was not yet at
\* its COMMIT
AfterRejectedUnlessCommit(pc) == IF pc = "COMMIT" THEN "release" ELSE "ROLLBACK"

\* catch (error) { await client.query("ROLLBACK"); ... }: the statement
\* that follows a rejected BEGIN, INSERT or COMMIT
AfterRejected(pc) == "ROLLBACK"

NoTransaction ==
    [fn |-> "none", pc |-> "idle", entries |-> <<>>, next |-> 0,
     connects |-> 0, released |-> 0, statements |-> <<>>,
     pending |-> <<>>, table |-> <<>>, before |-> <<>>, outcome |-> "none"]

TransactionIdle == tx = NoTransaction

\* the synchronous part of the call: the empty batch returns [], an entry
\* that fails validateEntry throws, else pool.connect() is awaited
TxCall ==
    /\ tx.pc = "call"
    /\ tx' = IF tx.fn = "insertEntries" /\ Len(tx.entries) = 0
             THEN [tx EXCEPT !.pc = "done", !.outcome = "returned"]
             ELSE IF ~ValidatedBeforeConnect(tx.entries)
             THEN [tx EXCEPT !.pc = "done", !.outcome = "threw"]
             ELSE [tx EXCEPT !.pc = "connect"]

\* await pool.connect(): a client, or a rejection that leaves the function
TxConnect ==
    /\ tx.pc = "connect"
    /\ \E resolved \in BOOLEAN :
           tx' = IF resolved
                 THEN [tx EXCEPT !.pc = "BEGIN", !.connects = @ + 1]
                 ELSE [tx EXCEPT !.pc = "done", !.outcome = "threw"]

\* await client.query("BEGIN")
TxBegin ==
    /\ tx.pc = "BEGIN"
    /\ \E resolved \in BOOLEAN :
           tx' = [tx EXCEPT
                    !.statements = Append(@, [sql |-> "BEGIN", resolved |-> resolved]),
                    !.next = 1,
                    !.pc = IF resolved THEN "INSERT" ELSE AfterRejected("BEGIN")]

\* await client.query(insertQuery, values) for the next entry
TxInsert ==
    /\ tx.pc = "INSERT"
    /\ \E resolved \in BOOLEAN :
           tx' = [tx EXCEPT
                    !.statements = Append(@, [sql |-> "INSERT", resolved |-> resolved]),
                    !.pending = IF resolved THEN Append(@, tx.entries[tx.next]) ELSE @,
                    !.next = @ + 1,
                    !.pc = IF ~resolved THEN AfterRejected("INSERT")
                           ELSE IF tx.next = Len(tx.entries) THEN "COMMIT"
                           ELSE "INSERT"]

\* await client.query("COMMIT"): resolved, the pending rows are in the table
TxCommit ==
    /\ tx.pc = "COMMIT"
    /\ \E resolved \in BOOLEAN :
           tx' = [tx EXCEPT
                    !.statements = Append(@, [sql |-> "COMMIT", resolved |-> resolved]),
                    !.table = IF resolved THEN InsertRows(@, tx.pending) ELSE @,
                    !.pending = IF resolved THEN <<>> ELSE @,
                    !.outcome = IF resolved THEN "returned" ELSE @,
                    !.pc = IF resolved THEN "release" ELSE AfterRejected("COMMIT")]

\* the catch block: await client.query("ROLLBACK"), then the error is
\* thrown (the first one, or ROLLBACK's own if it was rejected)
TxRollback ==
    /\ tx.pc = "ROLLBACK"
    /\ \E resolved \in BOOLEAN :
           tx' = [tx EXCEPT
                    !.statements = Append(@, [sql |-> "ROLLBACK", resolved |-> resolved]),
                    !.pending = IF resolved THEN <<>> ELSE @,
                    !.outcome = "threw",
                    !.pc = "release"]

\* finally { client.release() }
TxRelease ==
    /\ tx.pc = "release"
    /\ tx' = [tx EXCEPT !.released = @ + 1, !.pc = "done"]

(***************************************************************************)
(* The connection pool singleton (database/connection.js).  The module     *)
(* keeps one reference, pool.  createConnection has no await: it runs in   *)
(* one step.  closeConnection calls pool.end() and awaits it; the pool     *)
(* reference is reset only when that promise settles, and other calls run  *)
(* in between.  Pools are numbered in the order of their creation; NoPool  *)
(* is the null reference.  The environment is taken as valid.              *)
(***************************************************************************)
MaxPools == 3       \* most pools created in one run
MaxPending == 2     \* most closeConnection calls awaiting pool.end() at once

NoPool == 0

Pools == 1..MaxPools

NoConnection ==
    [pool |-> NoPool,                  \* the module's reference
     created |-> 0,                    \* pools constructed so far
     ends |-> [p \in Pools |-> 0],     \* calls of end() on each pool
     pending |-> <<>>,                 \* pools whose end() a closeConnection awaits
     returned |-> NoPool,              \* what the last createConnection returned
     returnedEnded |-> FALSE,          \* end() had been called on it by then
     previous |-> NoPool,              \* what the createConnection before it returned
     closedBetween |-> FALSE]          \* a closeConnection ran to its end in between

PoolIdle == conn = NoConnection

\* createConnection(): the pool at hand, or a new Pool(config)
createConnection(c) ==
    LET p == IF c.pool # NoPool THEN c.pool ELSE c.created + 1
    IN  [c EXCEPT !.pool = p,
                  !.created = IF c.pool # NoPool THEN @ ELSE @ + 1,
                  !.returned = p,
                  !.returnedEnded = c.ends[p] > 0,
                  !.previous = c.returned,
                  !.closedBetween = FALSE]

CreateConnection ==
    /\ conn.pool # NoPool \/ conn.created < MaxPools
    /\ conn' = createConnection(conn)

\* closeConnection() up to its await: nothing to do without a pool, else
\* pool.end() is called and awaited
CloseConnection ==
    /\ conn.pool # NoPool
    /\ Len(conn.pending) < MaxPending
    /\ conn' = [conn EXCEPT !.ends[conn.pool] = @ + 1,
                            !.pending = Append(@, conn.pool)]

\* the end() promise of one pending closeConnection settles (resolved, or
\* rejected and logged): finally { pool = null }
CloseSettles ==
    \E k \in DOMAIN conn.pending :
        conn' = [conn EXCEPT
                   !.pool = NoPool,
                   !.pending = SubSeq(@, 1, k - 1) \o SubSeq(@, k + 1, Len(@)),
                   !.closedBetween = TRUE]

(***************************************************************************)
(* Project resolution (database/entries.js).  ensureProjectExists awaits   *)
(* findProjectByName and, if no row was found, createProject; other calls  *)
(* run between the two awaits.  The table timewplus_projects has a UNIQUE  *)
(* constraint on "projectName": an INSERT of a name it holds is rejected   *)
(* with code 23505 and the constraint's name in the message.               *)
(***************************************************************************)
Callers == 2        \* concurrent calls of ensureProjectExists

ProjectCalls == 1..Callers

\* names as callers write them; validateProjectName trims them
ProjectNames == {"CODING", " CODING ", "TESTING"}

validateProjectName(projectName) ==
    IF projectName = " CODING " THEN "CODING" ELSE projectName

\* SELECT * FROM timewplus_projects WHERE "projectName" = $1
RowsNamed(table, normalizedName) ==
    {i \in DOMAIN table : table[i].projectName = normalizedName}

\* findProjectByName: the row, or NoProject (null) when rowCount is 0
NoProject == [id |-> 0, projectName |-> ""]

findProjectByName(table, projectName) ==
    LET found == RowsNamed(table, validateProjectName(projectName))
    IN  IF found = {} THEN NoProject ELSE table[CHOOSE i \in found : TRUE]

\* the error the store raises on a name it already holds
UniqueViolation ==
    [code |-> "23505", constraint |-> "timewplus_projects_projectName_key"]

\* a table without the constraint: every INSERT is taken
RejectedByStoreNever(table, normalizedName) == FALSE

\* "projectName" VARCHAR(255) NOT NULL UNIQUE
RejectedByStore(table, normalizedName) == RowsNamed(table, normalizedName) # {}

\* `Project "${normalizedName}" already exists`
AlreadyExists(normalizedName) ==
    [message |-> <<"Project", normalizedName, "already exists">>]

\* createProject's catch block: the unique violation of this table becomes
\* the "already exists" error, any other error is thrown as it is
createProjectError(error, normalizedName) ==
    IF error.code = "23505" /\ error.constraint = "timewplus_projects_projectName_key"
    THEN AlreadyExists(normalizedName)
    ELSE error

NoProjectCall == [pc |-> "idle", projectName |-> "", result |-> NoProject,
                  error |-> NoError]

NoProjects == [table |-> <<>>, nextId |-> 1, calls |-> [c \in ProjectCalls |-> NoProjectCall]]

ProjectsIdle == proj = NoProjects

\* await findProjectByName(pool, normalizedName) resolves: the row is
\* returned, or the call goes on to createProject
FindResolves(c) ==
    /\ proj.calls[c].pc = "find"
    /\ LET existingProject == findProjectByName(proj.table, proj.calls[c].projectName)
       IN  proj' = IF existingProject # NoProject
                   THEN [proj EXCEPT !.calls[c].pc = "returned",
                                     !.calls[c].result = existingProject]
                   ELSE [proj EXCEPT !.calls[c].pc = "create"]

\* await createProject(pool, normalizedName) settles: the INSERT ... RETURNING *
\* gives the new row, or the store rejects it
CreateSettles(c) ==
    /\ proj.calls[c].pc = "create"
    /\ LET normalizedName == validateProjectName(proj.calls[c].projectName)
           row == [id |-> proj.nextId, projectName |-> normalizedName]
       IN  proj' = IF RejectedByStore(proj.table, normalizedName)
                   THEN [proj EXCEPT
                           !.nextId = @ + 1,
                           !.calls[c].pc = "threw",
                           !.calls[c].error = createProjectError(UniqueViolation,
                                                                 normalizedName)]
                   ELSE [proj EXCEPT
                           !.nextId = @ + 1,
                           !.table = Append(@, row),
                           !.calls[c].pc = "returned",
                           !.calls[c].result = row]

\* a null endTime, where the other values are time values
NoTime == [day |-> NULL, ms |-> NULL]

\* entries.js validateEntry, its order check on the Date objects of an entry
\* (endTime <= startTime compares their time values).  FALSE is the thrown
\* "endTime must be after startTime".
validateEntryTimeOrder(startTime, endTime) ==
    IF endTime = NoTime THEN TRUE
    ELSE ~TimeLE(endTime, startTime)

\* the fetch command and the services modelled above are not in use
ServiceIdle == FetchIdle /\ MessageIdle /\ TransactionIdle /\ PoolIdle /\ ProjectsIdle

(***************************************************************************)
(* Specifications.                                                         *)
(***************************************************************************)
Init ==
    GuardIdle /\ OverlapIdle /\ CalendarIdle /\ ValidationIdle /\ WorkflowIdle /\ ServiceIdle

NextRounds ==
    \/ Admit /\ UNCHANGED <<overlapVars, calendarVars, validationVars, workflowVars, serviceVars>>
    \/ InsertAdmitted /\ UNCHANGED <<overlapVars, calendarVars, validationVars, workflowVars, serviceVars>>
    \/ EndRound /\ UNCHANGED <<overlapVars, calendarVars, validationVars, workflowVars, serviceVars>>

SpecRounds == Init /\ [][NextRounds]_vars

Next ==
    \/ Admit /\ UNCHANGED <<overlapVars, calendarVars, validationVars, workflowVars, serviceVars>>
    \/ InsertAdmitted /\ UNCHANGED <<overlapVars, calendarVars, validationVars, workflowVars, serviceVars>>
    \/ CheckOverlap /\ UNCHANGED <<overlapVars, calendarVars, validationVars, workflowVars, serviceVars>>
    \/ EndRound /\ UNCHANGED <<overlapVars, calendarVars, validationVars, workflowVars, serviceVars>>
    \/ fetchDateRange /\ UNCHANGED <<overlapVars, calendarVars, validationVars, workflowVars, serviceVars>>

Spec == Init /\ [][Next]_vars

InitOverlap ==
    /\ ServiceIdle
    /\ GuardIdle
    /\ CalendarIdle
    /\ ValidationIdle
    /\ WorkflowIdle
    /\ ivA \in AnyIntervals
    /\ ivB \in AnyIntervals
    /\ ovl = NotCompared

NextOverlap == Compare /\ UNCHANGED <<guardVars, calendarVars, validationVars, workflowVars, serviceVars>>

SpecOverlap == InitOverlap /\ [][NextOverlap]_vars

InitCalendar ==
    /\ ServiceIdle
    /\ GuardIdle
    /\ OverlapIdle
    /\ hostOffset \in HostOffsets
    /\ \E taipeiDate \in Dates : cal = [NoCal EXCEPT !.taipeiDate = taipeiDate]
    /\ probe = NoProbe
    /\ ValidationIdle
    /\ WorkflowIdle

NextCalendar ==
    \/ CalculateBoundaries /\ UNCHANGED <<guardVars, overlapVars, validationVars, workflowVars, serviceVars>>
    \/ CalculateNextDay /\ UNCHANGED <<guardVars, overlapVars, validationVars, workflowVars, serviceVars>>
    \/ ProbeBoundaries /\ UNCHANGED <<guardVars, overlapVars, validationVars, workflowVars, serviceVars>>

SpecCalendar == InitCalendar /\ [][NextCalendar]_vars

InitValidation ==
    /\ ServiceIdle
    /\ GuardIdle
    /\ OverlapIdle
    /\ cal = NoCal
    /\ probe = NoProbe
    /\ hostOffset \in HostOffsets
    /\ now \in Clocks
    /\ input \in ArraysUpTo(RawEntries(now, hostOffset), MaxEntries)
    /\ out = NoOutput
    /\ WorkflowIdle

NextValidation ==
    \/ ValidateEntry /\ UNCHANGED <<guardVars, overlapVars, cal, probe, workflowVars, serviceVars>>
    \/ FilterTodayEntries /\ UNCHANGED <<guardVars, overlapVars, cal, probe, workflowVars, serviceVars>>
    \/ ValidateEntries /\ UNCHANGED <<guardVars, overlapVars, cal, probe, workflowVars, serviceVars>>

SpecValidation == InitValidation /\ [][NextValidation]_vars

\* two workflows import the same batch into the same range at the same time
InitWorkflows ==
    /\ ServiceIdle
    /\ store \in InitialTables
    /\ call = NoCall
    /\ OverlapIdle
    /\ CalendarIdle
    /\ ValidationIdle
    /\ \E rangeStart \in GuardInstants, rangeEnd \in GuardInstants,
          newEntries \in BatchesUpTo(WorkflowBatch) \ {<<>>} :
           /\ validateDateRange(rangeStart, rangeEnd)
           /\ job = [startDate |-> rangeStart, endDate |-> rangeEnd,
                     newEntries |-> newEntries]
    /\ wf = [w \in Workflows |-> [IdleWorkflow EXCEPT !.pc = "count"]]

NextWorkflows ==
    \E w \in Workflows :
        \/ CountResolves(w) /\ UNCHANGED <<call, overlapVars, calendarVars, validationVars, serviceVars>>
        \/ SelectResolves(w) /\ UNCHANGED <<call, overlapVars, calendarVars, validationVars, serviceVars>>
        \/ QueryRejects(w) /\ UNCHANGED <<call, overlapVars, calendarVars, validationVars, serviceVars>>
        \/ InsertBatch(w) /\ UNCHANGED <<call, overlapVars, calendarVars, validationVars, serviceVars>>

SpecWorkflows == InitWorkflows /\ [][NextWorkflows]_vars

\* one call of the guard, for every table, range and batch
InitGuard ==
    /\ ServiceIdle
    /\ store \in TablesUpTo(MaxStore)
    /\ call = NoCall
    /\ OverlapIdle
    /\ CalendarIdle
    /\ ValidationIdle
    /\ \E rangeStart \in GuardInstants, rangeEnd \in GuardInstants,
          newEntries \in BatchesUpTo(WorkflowBatch) \ {<<>>} :
           /\ validateDateRange(rangeStart, rangeEnd)
           /\ job = [startDate |-> rangeStart, endDate |-> rangeEnd,
                     newEntries |-> newEntries]
    /\ wf = [w \in Workflows |-> IdleWorkflow]

NextGuard ==
    \/ AdmitJob /\ UNCHANGED <<overlapVars, calendarVars, validationVars, serviceVars>>
    \/ CheckJob /\ UNCHANGED <<overlapVars, calendarVars, validationVars, serviceVars>>

SpecGuard == InitGuard /\ [][NextGuard]_vars

\* one run of the fetch command, for every range, export and table
InitFetch ==
    /\ GuardIdle
    /\ OverlapIdle
    /\ CalendarIdle
    /\ ValidationIdle
    /\ WorkflowIdle
    /\ MessageIdle
    /\ TransactionIdle
    /\ PoolIdle
    /\ ProjectsIdle
    /\ \E rangeStart \in FetchDates, rangeEnd \in FetchDates,
          data \in ExportsUpTo(FetchBatch), rows \in FetchTablesUpTo(FetchRows) :
           /\ DateLE(rangeStart, rangeEnd)
           /\ fetch = [NoFetch EXCEPT !.pc = "export", !.startDate = rangeStart,
                                      !.endDate = rangeEnd, !.data = data,
                                      !.table = rows, !.before = rows]

NextFetch ==
    \/ FetchExistingCheck /\ UNCHANGED <<guardVars, overlapVars, calendarVars, validationVars, workflowVars, msg, tx, conn, proj>>
    \/ FetchGroupTypes /\ UNCHANGED <<guardVars, overlapVars, calendarVars, validationVars, workflowVars, msg, tx, conn, proj>>
    \/ FetchInsert /\ UNCHANGED <<guardVars, overlapVars, calendarVars, validationVars, workflowVars, msg, tx, conn, proj>>
    \/ FetchInsertFails /\ UNCHANGED <<guardVars, overlapVars, calendarVars, validationVars, workflowVars, msg, tx, conn, proj>>

SpecFetch == InitFetch /\ [][NextFetch]_vars

\* one message built, for every list of overlap records
InitMessage ==
    /\ GuardIdle
    /\ OverlapIdle
    /\ CalendarIdle
    /\ ValidationIdle
    /\ WorkflowIdle
    /\ FetchIdle
    /\ TransactionIdle
    /\ PoolIdle
    /\ ProjectsIdle
    /\ \E overlaps \in OverlapListsUpTo(MaxConflicts), existingCount \in 1..MaxStore,
          newEntriesCount \in 1..MaxBatch :
           msg = [NoMessage EXCEPT !.op = "pending",
                                   !.details = [overlaps |-> overlaps,
                                                existingCount |-> existingCount,
                                                newEntriesCount |-> newEntriesCount]]

NextMessage ==
    \/ FormatOverlapError /\ UNCHANGED <<guardVars, overlapVars, calendarVars, validationVars, workflowVars, fetch, tx, conn, proj>>
    \/ ThrowBlocked /\ UNCHANGED <<guardVars, overlapVars, calendarVars, validationVars, workflowVars, fetch, tx, conn, proj>>

SpecMessage == InitMessage /\ [][NextMessage]_vars

\* one call of insertEntry or insertEntries, for every batch and table
InitTransactions ==
    /\ GuardIdle
    /\ OverlapIdle
    /\ CalendarIdle
    /\ ValidationIdle
    /\ WorkflowIdle
    /\ FetchIdle
    /\ MessageIdle
    /\ PoolIdle
    /\ ProjectsIdle
    /\ \E fn \in {"insertEntry", "insertEntries"}, entries \in TxBatchesUpTo(TxBatch),
          rows \in InitialTables :
           /\ fn = "insertEntry" => Len(entries) = 1
           /\ tx = [NoTransaction EXCEPT !.fn = fn, !.pc = "call", !.entries = entries,
                                         !.table = rows, !.before = rows]

NextTransactions ==
    \/ TxCall /\ UNCHANGED <<guardVars, overlapVars, calendarVars, validationVars, workflowVars, fetch, msg, conn, proj>>
    \/ TxConnect /\ UNCHANGED <<guardVars, overlapVars, calendarVars, validationVars, workflowVars, fetch, msg, conn, proj>>
    \/ TxBegin /\ UNCHANGED <<guardVars, overlapVars, calendarVars, validationVars, workflowVars, fetch, msg, conn, proj>>
    \/ TxInsert /\ UNCHANGED <<guardVars, overlapVars, calendarVars, validationVars, workflowVars, fetch, msg, conn, proj>>
    \/ TxCommit /\ UNCHANGED <<guardVars, overlapVars, calendarVars, validationVars, workflowVars, fetch, msg, conn, proj>>
    \/ TxRollback /\ UNCHANGED <<guardVars, overlapVars, calendarVars, validationVars, workflowVars, fetch, msg, conn, proj>>
    \/ TxRelease /\ UNCHANGED <<guardVars, overlapVars, calendarVars, validationVars, workflowVars, fetch, msg, conn, proj>>

SpecTransactions == InitTransactions /\ [][NextTransactions]_vars

\* any sequence of createConnection and closeConnection calls
InitPool ==
    /\ GuardIdle
    /\ OverlapIdle
    /\ CalendarIdle
    /\ ValidationIdle
    /\ WorkflowIdle
    /\ FetchIdle
    /\ MessageIdle
    /\ TransactionIdle
    /\ ProjectsIdle
    /\ conn = NoConnection

NextPool ==
    \/ CreateConnection /\ UNCHANGED <<guardVars, overlapVars, calendarVars, validationVars, workflowVars, fetch, msg, tx, proj>>
    \/ CloseConnection /\ UNCHANGED <<guardVars, overlapVars, calendarVars, validationVars, workflowVars, fetch, msg, tx, proj>>
    \/ CloseSettles /\ UNCHANGED <<guardVars, overlapVars, calendarVars, validationVars, workflowVars, fetch, msg, tx, proj>>

SpecPool == InitPool /\ [][NextPool]_vars

\* concurrent calls of ensureProjectExists, on a table with or without the
\* projects they name
InitProjects ==
    /\ GuardIdle
    /\ OverlapIdle
    /\ CalendarIdle
    /\ ValidationIdle
    /\ WorkflowIdle
    /\ FetchIdle
    /\ MessageIdle
    /\ TransactionIdle
    /\ PoolIdle
    /\ \E names \in [ProjectCalls -> ProjectNames],
          held \in SUBSET {"CODING", "TESTING"} :
           LET heldNames == IF held = {} THEN <<>>
                            ELSE IF held = {"CODING"} THEN <<"CODING">>
                            ELSE IF held = {"TESTING"} THEN <<"TESTING">>
                            ELSE <<"CODING", "TESTING">>
           IN  proj = [table |-> [i \in DOMAIN heldNames |->
                                     [id |-> i, projectName |-> heldNames[i]]],
                       nextId |-> Len(heldNames) + 1,
                       calls |-> [c \in ProjectCalls |->
                                     [NoProjectCall EXCEPT !.pc = "find",
                                                           !.projectName = names[c]]]]

NextProjects ==
    \E c \in ProjectCalls :
        \/ FindResolves(c) /\ UNCHANGED <<guardVars, overlapVars, calendarVars, validationVars, workflowVars, fetch, msg, tx, conn>>
        \/ CreateSettles(c) /\ UNCHANGED <<guardVars, overlapVars, calendarVars, validationVars, workflowVars, fetch, msg, tx, conn>>

SpecProjects == InitProjects /\ [][NextProjects]_vars

(***************************************************************************)
(* Properties of the duplicate guard (SpecRounds, Spec).                   *)
(***************************************************************************)

\* two intervals are identical: same start, and same end or both ongoing
Identical(x, y) == x.startTime = y.startTime /\ x.endTime = y.endTime

\* C1: no interval is ever recorded twice: after any sequence of rounds of
\* admit-then-insert from the empty table, no two rows have the same start
\* and the same end.
NoIntervalRecordedTwice ==
    \A i, j \in DOMAIN store : i # j => ~Identical(store[i], store[j])

\* C2: idempotent admission: an admit call whose batch holds a valid interval
\* x with x.start inside the range throws whenever the table already holds an
\* interval identical to x.
IdenticalAlwaysBlocks ==
    call.op = "admit" =>
        \A k \in DOMAIN call.newEntries :
            (/\ ValidInterval(call.newEntries[k])
             /\ InDateRange(call.newEntries[k], call.startDate, call.endDate)
             /\ \E i \in DOMAIN store : Identical(store[i], call.newEntries[k]))
            => call.thrown

\* wall-clock overlap: a bounded interval covers [start, end), an ongoing one
\* everything from its start on; the two share a moment iff the later of the
\* two starts lies before both ends
SharesMoment(x, y) ==
    LET later == IF x.startTime >= y.startTime THEN x.startTime ELSE y.startTime
    IN  /\ (x.endTime = NULL \/ later < x.endTime)
        /\ (y.endTime = NULL \/ later < y.endTime)

\* C3: overlap detection is complete in wall-clock time: checkDateRangeOverlap
\* reports every pair of a candidate and a persisted interval starting in the
\* queried range that share a wall-clock moment.
OverlapDetectionComplete ==
    call.op = "check" =>
        \A k \in DOMAIN call.newEntries, i \in DOMAIN store :
            (/\ InDateRange(store[i], call.startDate, call.endDate)
             /\ SharesMoment(call.newEntries[k], store[i]))
            => \E n \in DOMAIN call.overlaps :
                   /\ call.overlaps[n].newIndex = k
                   /\ Identical(call.overlaps[n].existingEntry, store[i])

(***************************************************************************)
(* Properties of timeRangesOverlap (SpecOverlap).                          *)
(***************************************************************************)
Bounded(x) == x.endTime # NULL

\* x ends exactly where y starts, both of positive length: {T0,T1}, {T1,T2}
Touching(x, y) ==
    /\ Bounded(x) /\ Bounded(y)
    /\ x.startTime < x.endTime /\ x.endTime = y.startTime /\ y.startTime < y.endTime

\* C4: for two bounded intervals timeRangesOverlap is true iff
\* a.start < b.end and b.start < a.end; intervals that merely touch at an
\* endpoint do not overlap, in either argument order.
BoundedOverlapRule ==
    (ovl.done /\ Bounded(ivA) /\ Bounded(ivB)) =>
        /\ ovl.ab <=> (ivA.startTime < ivB.endTime /\ ivB.startTime < ivA.endTime)
        /\ Touching(ivA, ivB) => (~ovl.ab /\ ~ovl.ba)

BoundedOverlapWitness ==
    ovl.done /\ Touching(ivA, ivB) /\ ~ovl.ab /\ ~ovl.ba

\* C5: when exactly one of the two intervals is ongoing, timeRangesOverlap is
\* true iff the bounded interval's start >= the ongoing interval's start,
\* whatever the bounded interval's end and whichever argument is ongoing;
\* with at most one ongoing interval the result is symmetric.
OpenBoundedRule ==
    ovl.done =>
        /\ (~Bounded(ivA) /\ Bounded(ivB)) =>
               (ovl.ab <=> ivB.startTime >= ivA.startTime)
        /\ (Bounded(ivA) /\ ~Bounded(ivB)) =>
               (ovl.ab <=> ivA.startTime >= ivB.startTime)
        /\ (Bounded(ivA) \/ Bounded(ivB)) => (ovl.ab <=> ovl.ba)

\* a bounded first argument starting after the ongoing second one: a conflict
\* in both argument orders
OpenBoundedWitness ==
    /\ ovl.done /\ Bounded(ivA) /\ ~Bounded(ivB)
    /\ ivA.startTime > ivB.startTime
    /\ ovl.ab /\ ovl.ba

(***************************************************************************)
(* The calendar boundaries.                                                *)
(***************************************************************************)
ProbedStart == probe.done /\ probe.ts = cal.boundaries.startUTC

ProbedEnd == probe.done /\ probe.ts = cal.boundaries.endUTC

\* C6: for every calendar date d, the Taipei calendar date of
\* calculateDateBoundaries(d).startUTC, taken by
\* getTaipeiCalendarDate(convertToTaipeiTime(..)), is d, and so is the Taipei
\* calendar date of calculateDateBoundaries(d).endUTC.
BoundariesRoundTrip ==
    (ProbedStart \/ ProbedEnd) => probe.calendarDate = cal.taipeiDate

\* the end of a leap day, 2024-02-29, comes back as 2024-02-29
BoundariesRoundTripWitness ==
    /\ ProbedEnd
    /\ cal.taipeiDate = CalendarDate(2024, 2, 29)
    /\ probe.calendarDate = CalendarDate(2024, 2, 29)

\* C7: for consecutive calendar dates d and d+1, the end boundary of d plus
\* one millisecond is the start boundary of d+1: no instant lies between the
\* two days and none belongs to both.
ConsecutiveDaysTile ==
    cal.previous # NoBoundaries =>
        /\ cal.taipeiDate = NextDate(cal.previous.taipeiDate)
        /\ AddMs(ParseDate(cal.previous.endUTC, hostOffset), 1)
               = ParseDate(cal.boundaries.startUTC, hostOffset)

\* the last day of a year and the first of the next
ConsecutiveDaysTileWitness ==
    /\ cal.previous # NoBoundaries
    /\ cal.previous.taipeiDate = CalendarDate(2024, 12, 31)
    /\ cal.taipeiDate = CalendarDate(2025, 1, 1)
    /\ cal.previous.endUTC = IsoString(2024, 12, 31, 15, 59, 59, 999, TRUE, "Z")
    /\ cal.boundaries.startUTC = IsoString(2024, 12, 31, 16, 0, 0, 0, FALSE, "Z")

OneMsBeforeStart == toISOString(AddMs(ParseDate(cal.boundaries.startUTC, 0), 0 - 1))

OneMsAfterEnd == toISOString(AddMs(ParseDate(cal.boundaries.endUTC, 0), 1))

WellFormed(ts) == ts.form = "iso" /\ ~ts.frac

\* the number of the Taipei (UTC+8) day a UTC time value lies in
TaipeiDayOf(t) == AddMs(t, 8 * 3600000).day

\* the UTC instant a start string names (with no designator it is UTC)
UtcInstant(ts) == ParseDate(IF ts.tz = "" THEN [ts EXCEPT !.tz = "Z"] ELSE ts, 0)

StartsToday(entry) == TaipeiDayOf(UtcInstant(entry.start)) = TaipeiDayOf(now)

InSeq(x, seq) == \E n \in DOMAIN seq : seq[n] = x

FilteredAsToday(i) ==
    InSeq([index |-> i, message |-> "Filtered out (incomplete data from today)"],
          out.result.errors)

\* C9: a record with a well-formed start is excluded by filterTodayEntries,
\* and counted as filtered by validateEntries, exactly when the Taipei
\* calendar day of its start is the Taipei calendar day of now, whatever its
\* end and its UTC date are; a record that starts today is never among the
\* valid entries.
TodayExclusion ==
    \A i \in DOMAIN input :
        (input[i].form = "object" /\ WellFormed(input[i].start)) =>
            /\ out.op = "filterTodayEntries" =>
                   (StartsToday(input[i]) <=> ~InSeq(input[i], out.kept))
            /\ out.op = "validateEntries" =>
                   /\ StartsToday(input[i]) <=> FilteredAsToday(i)
                   /\ StartsToday(input[i]) => ~InSeq(input[i], out.result.validEntries)

\* a record whose start is on yesterday's UTC date and today's Taipei date,
\* with an end on another day, is filtered as today's
TodayExclusionWitness ==
    /\ out.op = "validateEntries"
    /\ \E i \in DOMAIN input :
           /\ input[i].form = "object"
           /\ WellFormed(input[i].start)
           /\ WellFormed(input[i].end)
           /\ UtcInstant(input[i].start).day # now.day
           /\ StartsToday(input[i])
           /\ TaipeiDayOf(UtcInstant(input[i].end)) # TaipeiDayOf(now)
           /\ FilteredAsToday(i)

\* the instant a timestamp string names to the validation module
InstantOf(ts) == ParseDate(ts, hostOffset)

InsideWindow(ts) ==
    /\ TimeGE(InstantOf(ts), DateUTC(2024, 1, 1, 0, 0, 0, 0))
    /\ TimeLE(InstantOf(ts), OneYearFrom(now))

ShapeIsValid(entry) ==
    /\ entry.form = "object"
    /\ WellFormed(entry.start)
    /\ InsideWindow(entry.start)
    /\ entry.end.form # "absent" =>
           /\ WellFormed(entry.end)
           /\ TimeLE(InstantOf(entry.start), InstantOf(entry.end))
           /\ InsideWindow(entry.end)

\* C10: validateEntry accepts a raw record exactly when its start is present
\* and well-formed, its end (when present) is well-formed and not before the
\* start, and the start and the end (when present) lie in the window from
\* START_DATE to one year from now; a record with a valid start and no end is
\* accepted.
ShapeValidation ==
    out.op = "validateEntry" => (out.accepted <=> ShapeIsValid(input[out.index]))

ErrorIndices == {out.result.errors[n].index : n \in DOMAIN out.result.errors}

\* the records of the input that no rejection names, in input order
NotRejected ==
    LET RECURSIVE From(_)
        From(i) == IF i > Len(input) THEN <<>>
                   ELSE IF i \in ErrorIndices THEN From(i + 1)
                   ELSE <<input[i]>> \o From(i + 1)
    IN  From(1)

\* C11: validateEntries returns a result for every input array, whatever
\* null, malformed or unconvertible records it holds; every record is either
\* in validEntries or named by exactly one rejection, so that
\* validEntries.length + filteredCount + invalidCount is the input length and
\* errors.length = filteredCount + invalidCount; validEntries and the
\* rejections are in input order.
BatchIsPartitioned ==
    out.op = "validateEntries" =>
        LET r == out.result
        IN  /\ Len(r.validEntries) + r.filteredCount + r.invalidCount = Len(input)
            /\ Len(r.errors) = r.filteredCount + r.invalidCount
            /\ \A n \in DOMAIN r.errors : r.errors[n].index \in DOMAIN input
            /\ \A n, m \in DOMAIN r.errors : n < m => r.errors[n].index < r.errors[m].index
            /\ r.validEntries = NotRejected

\* a record with an unparsable start, rejected, stands before an accepted one
BatchIsPartitionedWitness ==
    /\ out.op = "validateEntries"
    /\ Len(input) = 2
    /\ input[1].form = "object"
    /\ input[1].start = Garbage
    /\ out.result.invalidCount = 1
    /\ out.result.errors = <<[index |-> 1, message |-> "Invalid timestamp format"]>>
    /\ out.result.validEntries = <<input[2]>>

(***************************************************************************)
(* The guard among concurrent workflows.                                   *)
(***************************************************************************)
Copies(x) == Cardinality({i \in DOMAIN store : Identical(store[i], x)})

\* workflow w passed the existence fast path (its COUNT found nothing, it
\* made no other query) and has inserted its batch
PassedFastPathAndInserted(w) ==
    /\ wf[w].pc = "done"
    /\ wf[w].inserted
    /\ wf[w].count = 0
    /\ wf[w].queries = <<"SELECT COUNT">>

\* C12: the guard holds no lock.  When two workflows run
\* blockInsertionIfOverlap and then insert the same batch on the same range
\* with nothing in it, there is an interleaving in which both pass the
\* existence fast path and both insert; whenever that happens the table
\* holds every interval of the batch at least twice.
RaceLeavesDuplicates ==
    (\A w \in Workflows : PassedFastPathAndInserted(w)) =>
        \A k \in DOMAIN job.newEntries : Copies(job.newEntries[k]) >= 2

\* the interleaving: from the empty table, both passed and both inserted
RaceLeavesDuplicatesWitness ==
    /\ \A w \in Workflows : PassedFastPathAndInserted(w)
    /\ Len(job.newEntries) > 0
    /\ Len(store) = 2 * Len(job.newEntries)
    /\ Copies(job.newEntries[1]) = 2

ReadStatements == {"SELECT COUNT", "SELECT"}

InGuard(w) == wf[w].pc \in {"count", "select"}

\* C13: blockInsertionIfOverlap is a pure gate.  Every step it takes leaves
\* the table as it is and issues a read statement only; it ends in one
\* decision for the whole batch (returned, or thrown); after a throw the
\* workflow writes nothing, and the write after a return covers the whole
\* batch or none of it.
GuardIsPureGate ==
    [][\A w \in Workflows :
          /\ (InGuard(w) /\ wf'[w] # wf[w]) =>
                 /\ store' = store
                 /\ \A n \in DOMAIN wf'[w].queries : wf'[w].queries[n] \in ReadStatements
                 /\ wf'[w].pc \in {"select", "admitted", "blocked", "failed"}
          /\ wf[w].pc \in {"blocked", "failed"} => wf'[w] = wf[w]
          /\ (wf[w].pc = "admitted" /\ wf'[w] # wf[w]) =>
                 (Len(store') - Len(store)) \in {0, Len(job.newEntries)}
      ]_vars

\* a guard that made both queries and threw, the table still what it was
GuardIsPureGateWitness ==
    \E w \in Workflows :
        /\ wf[w].pc = "blocked"
        /\ wf[w].queries = <<"SELECT COUNT", "SELECT">>
        /\ Len(wf[w].overlaps) > 0
        /\ wf[w].existingEntries = SelectInDateRange(store, job.startDate, job.endDate)

\* C14: whenever a store read fails, the call ends with the very value the
\* store raised, for every value the store can raise: never another error,
\* an overlap rejection or a result.
StoreErrorsPropagate ==
    \A w \in Workflows :
        wf[w].raised # NoError => (wf[w].pc = "failed" /\ wf[w].error = wf[w].raised)

\* C15: a call of blockInsertionIfOverlap reads the store at most once, and
\* the rows its overlap comparison uses are the rows its existence check
\* counted.
SingleStoreRead ==
    \A w \in Workflows :
        /\ Len(wf[w].queries) <= 1
        /\ wf[w].pc \in {"blocked", "admitted", "done"} /\ Len(wf[w].queries) = 2
               => Len(wf[w].existingEntries) = wf[w].count

(***************************************************************************)
(* The guard's decision and its report.                                    *)
(***************************************************************************)
\* a row whose start lies in the range of the pending call, both ends included
StartsInRange(row) == call.startDate <= row.startTime /\ row.startTime <= call.endDate

RowsInRange == {i \in DOMAIN store : StartsInRange(store[i])}

Reported(k, x) ==
    Cardinality({n \in DOMAIN call.overlaps :
                    /\ call.overlaps[n].newIndex = k
                    /\ Identical(call.overlaps[n].existingEntry, x)})

\* C17: checkDateRangeOverlap returns exactly one record for each pair of a
\* candidate and a stored row starting in [startDate, endDate] for which
\* timeRangesOverlap(candidate, row) holds, and no record for any other
\* pair; hasOverlap is true exactly when the list is not empty.
OneRecordPerOverlappingPair ==
    call.op = "check" =>
        /\ \A k \in DOMAIN call.newEntries : \A i \in DOMAIN store :
               Reported(k, store[i]) =
                   IF timeRangesOverlap(call.newEntries[k].startTime,
                                        call.newEntries[k].endTime,
                                        store[i].startTime, store[i].endTime)
                   THEN Cardinality({j \in RowsInRange : Identical(store[j], store[i])})
                   ELSE 0
        /\ \A n \in DOMAIN call.overlaps :
               /\ call.overlaps[n].newIndex \in DOMAIN call.newEntries
               /\ call.overlaps[n].newEntry = call.newEntries[call.overlaps[n].newIndex]
               /\ \E i \in RowsInRange : Identical(store[i], call.overlaps[n].existingEntry)
        /\ call.hasOverlap <=> Len(call.overlaps) > 0

\* one candidate overlapping two different rows of the range: two records
OneRecordPerOverlappingPairWitness ==
    /\ call.op = "check"
    /\ Len(call.overlaps) = 2
    /\ call.overlaps[1].newIndex = call.overlaps[2].newIndex
    /\ ~Identical(call.overlaps[1].existingEntry, call.overlaps[2].existingEntry)
    /\ call.hasOverlap

\* C18: every reported overlap is classified ongoing_conflict exactly when
\* the candidate or the stored interval of the pair is open, time_overlap
\* exactly when both are bounded, and nothing else.
OverlapsAreClassified ==
    call.op = "check" =>
        \A n \in DOMAIN call.overlaps :
            LET o == call.overlaps[n]
                open == o.newEntry.endTime = NULL \/ o.existingEntry.endTime = NULL
            IN  /\ o.overlapType \in {"ongoing_conflict", "time_overlap"}
                /\ o.overlapType = "ongoing_conflict" <=> open
                /\ o.overlapType = "time_overlap" <=> ~open

\* an open candidate against a bounded row, reported as ongoing_conflict
OverlapsAreClassifiedWitness ==
    /\ call.op = "check"
    /\ \E n \in DOMAIN call.overlaps :
           /\ call.overlaps[n].newEntry.endTime = NULL
           /\ call.overlaps[n].existingEntry.endTime # NULL
           /\ call.overlaps[n].overlapType = "ongoing_conflict"

\* C20: blockInsertionIfOverlap blocks the insertion whenever the table
\* holds an entry whose startTime lies in [startDate, endDate], for any
\* non-empty batch.
BlocksIfEntriesExist ==
    (call.op = "admit" /\ Len(call.newEntries) > 0 /\ RowsInRange # {}) => call.thrown

StartsOnTaipeiDay(row, d) ==
    isWithinDateBoundaries(toISOString(row.startTime), calculateDateBoundaries(d), 0) = TRUE

HeldEntryInRange ==
    \E i \in DOMAIN fetch.before, d \in FetchDates :
        /\ DateLE(fetch.startDate, d) /\ DateLE(d, fetch.endDate)
        /\ StartsOnTaipeiDay(fetch.before[i], d)

Inserts == {k \in DOMAIN fetch.statements : fetch.statements[k] = "INSERT"}

FetchBlocksOnExistingEntries ==
    (fetch.pc # "idle" /\ HeldEntryInRange) => Inserts = {}

\* C21, second part: the existence check precedes every INSERT of the run
ExistenceCheckPrecedesInserts ==
    \A k \in Inserts : k > 1 /\ fetch.statements[1] = "SELECT COUNT"

(***************************************************************************)
(* C22  The message states the conflict count and, for each conflict in    *)
(* order, the labels of the new and the existing interval with their       *)
(* windows in local (UTC+8) wall-clock time, "ongoing" for an open end,    *)
(* and then the closing remediation sentence.                              *)
(***************************************************************************)
LocalWindow(entry) ==
    [from |-> ClockTaipei(entry.startTime),
     to |-> IF entry.endTime.form = "absent" THEN "ongoing" ELSE ClockTaipei(entry.endTime)]

\* the message names count, labels and closing sentence of the details, with
\* the windows read by Window
MessageStates(Window(_)) ==
    LET overlaps == msg.details.overlaps
    IN  /\ msg.text.overlapCount = Len(overlaps)
        /\ DOMAIN msg.text.conflicts = DOMAIN overlaps
        /\ \A k \in DOMAIN overlaps :
               /\ msg.text.conflicts[k].number = k
               /\ msg.text.conflicts[k].newLabel = overlaps[k].newEntry.sessionName
               /\ msg.text.conflicts[k].newWindow = Window(overlaps[k].newEntry)
               /\ msg.text.conflicts[k].existingLabel = overlaps[k].existingEntry.sessionName
               /\ msg.text.conflicts[k].existingWindow = Window(overlaps[k].existingEntry)
        /\ msg.text.closing = Remediation

MessageInLocalTime ==
    msg.op \in {"formatOverlapError", "blockInsertionIfOverlap"} => MessageStates(LocalWindow)

\* what the message does state: the same with the windows in UTC
MessageInUTC ==
    msg.op \in {"formatOverlapError", "blockInsertionIfOverlap"} => MessageStates(WindowOf)

(***************************************************************************)
(* C23  insertEntries is all-or-nothing: if an entry of the batch fails    *)
(* validation no connection is taken, no transaction is begun and nothing  *)
(* is inserted; if an INSERT fails, ROLLBACK is issued and none of the     *)
(* batch's entries is committed; the batch is committed only when every    *)
(* INSERT succeeded.                                                       *)
(***************************************************************************)
\* statements of the call so far with this text (and this outcome)
Issued(sql) == {k \in DOMAIN tx.statements : tx.statements[k].sql = sql}

Resolved(sql) == {k \in Issued(sql) : tx.statements[k].resolved}

Rejected(sql) == Issued(sql) \ Resolved(sql)

\* an entry whose end is not after its start
FailsValidation(entry) == entry.endTime # NULL /\ entry.endTime <= entry.startTime

BatchCommitted == tx.table = InsertRows(tx.before, tx.entries)

InsertEntriesAllOrNothing ==
    (tx.fn = "insertEntries" /\ tx.pc # "call") =>
        /\ (\E k \in DOMAIN tx.entries : FailsValidation(tx.entries[k])) =>
               /\ tx.connects = 0
               /\ tx.statements = <<>>
               /\ tx.table = tx.before
               /\ tx.outcome = "threw"
        /\ Rejected("INSERT") # {} =>
               /\ tx.table = tx.before
               /\ Issued("COMMIT") = {}
               /\ tx.pc \in {"release", "done"} => Issued("ROLLBACK") # {}
        /\ tx.table = tx.before \/ BatchCommitted
        /\ tx.table # tx.before =>
               /\ Cardinality(Resolved("INSERT")) = Len(tx.entries)
               /\ Rejected("INSERT") = {}
               /\ Resolved("COMMIT") # {}
        /\ Resolved("COMMIT") # {} =>
               Cardinality(Resolved("INSERT")) = Len(tx.entries) /\ BatchCommitted

\* a batch of two whose second INSERT was rejected after the first resolved
InsertEntriesAllOrNothingWitness ==
    /\ tx.fn = "insertEntries"
    /\ tx.pc = "done"
    /\ Len(tx.entries) = 2
    /\ Resolved("INSERT") # {}
    /\ Rejected("INSERT") # {}
    /\ Resolved("ROLLBACK") # {}
    /\ tx.table = tx.before

(***************************************************************************)
(* C30  Transaction and client discipline of insertEntry / insertEntries:  *)
(* once a client is acquired BEGIN is the first statement, exactly one of  *)
(* COMMIT or ROLLBACK follows (COMMIT only after every INSERT succeeded,   *)
(* ROLLBACK after any failed statement), and the client is released        *)
(* exactly once on every path.                                             *)
(***************************************************************************)
Finished == tx.pc = "done" /\ tx.connects > 0

ClientDiscipline ==
    /\ tx.released <= tx.connects
    /\ tx.connects <= 1
    /\ tx.statements # <<>> => tx.connects = 1 /\ tx.statements[1].sql = "BEGIN"
    /\ tx.pc = "done" => tx.released = tx.connects
    /\ tx.released = 1 => tx.pc = "done"

CommitOnlyAfterEveryInsert ==
    Issued("COMMIT") # {} =>
        /\ Resolved("BEGIN") # {}
        /\ Cardinality(Resolved("INSERT")) = Len(tx.entries)
        /\ Rejected("INSERT") = {}

RollbackAfterFailedStatement ==
    Finished =>
        (Issued("ROLLBACK") # {} <=>
             Rejected("BEGIN") \cup Rejected("INSERT") \cup Rejected("COMMIT") # {})

\* as stated: exactly one COMMIT or ROLLBACK in all
ExactlyOneCommitOrRollback ==
    /\ ClientDiscipline
    /\ CommitOnlyAfterEveryInsert
    /\ RollbackAfterFailedStatement
    /\ Finished => Cardinality(Issued("COMMIT") \cup Issued("ROLLBACK")) = 1

\* amended: the transaction ends with one resolved COMMIT or with one
\* ROLLBACK; a rejected COMMIT is followed by the ROLLBACK, and only then
\* does the call issue both
CommitOrRollbackEndsTransaction ==
    /\ ClientDiscipline
    /\ CommitOnlyAfterEveryInsert
    /\ RollbackAfterFailedStatement
    /\ Cardinality(Issued("COMMIT")) <= 1 /\ Cardinality(Issued("ROLLBACK")) <= 1
    /\ Finished =>
           /\ (Resolved("COMMIT") # {}) # (Issued("ROLLBACK") # {})
           /\ LET last == tx.statements[Len(tx.statements)]
              IN  (last.sql = "COMMIT" /\ last.resolved) \/ last.sql = "ROLLBACK"
           /\ (Issued("COMMIT") # {} /\ Issued("ROLLBACK") # {}) <=> Rejected("COMMIT") # {}

\* COMMIT and then ROLLBACK were both rejected, and the client is released
CommitOrRollbackEndsTransactionWitness ==
    /\ Finished
    /\ Rejected("COMMIT") # {}
    /\ Rejected("ROLLBACK") # {}
    /\ tx.released = 1

(***************************************************************************)
(* C24  Pool lifecycle, for any sequence of createConnection and           *)
(* closeConnection calls, calls made while a closeConnection still awaits  *)
(* pool.end() included: createConnection returns the same pool until it is *)
(* closed and a new pool afterwards, pool.end() is invoked exactly once    *)
(* per created pool, and createConnection never hands out a pool on which  *)
(* end() has already been invoked.                                         *)
(***************************************************************************)
CreatedPools == 1..conn.created

SamePoolUntilClosed ==
    (conn.previous # NoPool /\ conn.returned # NoPool) =>
        (conn.closedBetween <=> conn.returned # conn.previous)

EndInvokedAtMostOnce == \A p \in CreatedPools : conn.ends[p] <= 1

\* a pool the module no longer refers to has been ended
DroppedPoolsEnded == \A p \in CreatedPools : p # conn.pool => conn.ends[p] >= 1

NeverHandsOutEndedPool == ~conn.returnedEnded

PoolLifecycle ==
    /\ SamePoolUntilClosed
    /\ EndInvokedAtMostOnce
    /\ DroppedPoolsEnded
    /\ NeverHandsOutEndedPool

(***************************************************************************)
(* C25  Find-or-create race: a call of ensureProjectExists that finds no   *)
(* row and whose INSERT comes after another writer's for the same name     *)
(* rejects with 'Project "<name>" already exists' and creates no second    *)
(* row; in every interleaving of concurrent calls for one name exactly one *)
(* row with that name exists afterwards, and every call that returns       *)
(* normally returns that row.                                              *)
(***************************************************************************)
NameOf(c) == validateProjectName(proj.calls[c].projectName)

Settled(c) == proj.calls[c].pc \in {"returned", "threw"}

FindOrCreateRace ==
    /\ \A n \in {"CODING", "TESTING"} : Cardinality(RowsNamed(proj.table, n)) <= 1
    /\ \A c \in ProjectCalls :
           /\ proj.calls[c].pc = "threw" =>
                  proj.calls[c].error.message = <<"Project", NameOf(c), "already exists">>
           /\ Settled(c) => Cardinality(RowsNamed(proj.table, NameOf(c))) = 1
           /\ proj.calls[c].pc = "returned" =>
                  /\ proj.calls[c].result.projectName = NameOf(c)
                  /\ \E i \in RowsNamed(proj.table, NameOf(c)) :
                         proj.table[i] = proj.calls[c].result

\* two calls for one name both found nothing; one created the row, the
\* other was rejected
FindOrCreateRaceWitness ==
    \E c, d \in ProjectCalls :
        /\ c # d
        /\ NameOf(c) = NameOf(d)
        /\ proj.calls[c].pc = "threw"
        /\ proj.calls[d].pc = "returned"
        /\ proj.calls[d].result.id = proj.nextId - 2
        /\ Cardinality(RowsNamed(proj.table, NameOf(c))) = 1

(***************************************************************************)
(* C26  isWithinDateBoundaries reads a timestamp with no timezone          *)
(* designator as a UTC instant, whatever the host's time zone: its result  *)
(* for t equals its result for t + "Z".                                    *)
(***************************************************************************)
NoDesignatorReadAsUTC ==
    (probe.done /\ probe.ts.form = "iso" /\ probe.ts.tz = "") =>
        probe.within = isWithinDateBoundaries([probe.ts EXCEPT !.tz = "Z"],
                                              cal.boundaries, hostOffset)

\* what holds on a host whose time zone is UTC
NoDesignatorReadAsUTCOnUTCHost ==
    hostOffset = 0 => NoDesignatorReadAsUTC

(***************************************************************************)
(* C27  The guard prevents overlapping imports against the whole table:    *)
(* blockInsertionIfOverlap throws whenever a candidate overlaps a          *)
(* persisted interval, those that start before startDate (outside the      *)
(* queried range) and are still open or end after the candidate's start    *)
(* included.  Overlap is taken as timeRangesOverlap decides it.            *)
(***************************************************************************)
OverlapsRow(k, i) ==
    timeRangesOverlap(call.newEntries[k].startTime, call.newEntries[k].endTime,
                      store[i].startTime, store[i].endTime)

GuardCoversWholeTable ==
    call.op = "admit" =>
        ((\E k \in DOMAIN call.newEntries, i \in DOMAIN store : OverlapsRow(k, i))
             => call.thrown)

\* what the guard covers: the rows that start within the queried range
GuardCoversQueriedRange ==
    call.op = "admit" =>
        ((\E k \in DOMAIN call.newEntries, i \in DOMAIN store :
              /\ store[i].startTime >= call.startDate
              /\ store[i].startTime <= call.endDate
              /\ OverlapsRow(k, i))
             => call.thrown)

(***************************************************************************)
(* C28  Day boundaries partition the UTC timeline consistently with date   *)
(* conversion: for a UTC instant i at millisecond resolution and a         *)
(* calendar date d, isWithinDateBoundaries(i, calculateDateBoundaries(d))  *)
(* holds iff getTaipeiCalendarDate(convertToTaipeiTime(i)) = d, so every   *)
(* instant lies within the boundaries of exactly one calendar date.        *)
(***************************************************************************)
\* the calendar date k days from dt
DateShifted(dt, k) ==
    LET c == CivilFromDays(DaysFromCivil(dt.y, dt.mo, dt.d) + k)
    IN  CalendarDate(c.y, c.mo, c.d)

\* the dates around the one whose boundaries were probed; every probe lies
\* within a day of them
DatesAround(dt) == {DateShifted(dt, k) : k \in (0 - 2)..2}

WithinDay(ts, d) == isWithinDateBoundaries(ts, calculateDateBoundaries(d), hostOffset)

PassesInsertionOrderCheck(entry) ==
    validateEntryTimeOrder(InstantOf(entry.start),
                           IF entry.end.form = "absent" THEN NoTime
                           ELSE InstantOf(entry.end))

TimeOrderSameAtEveryStage ==
    out.op = "validateEntries" =>
        \A k \in DOMAIN out.result.validEntries :
            PassesInsertionOrderCheck(out.result.validEntries[k])

\* what does hold: an accepted record fails the insertion-time check only
\* when its end is the very instant of its start
TimeOrderDiffersOnlyOnEqualEnds ==
    out.op = "validateEntries" =>
        \A k \in DOMAIN out.result.validEntries :
            LET entry == out.result.validEntries[k]
            IN  \/ PassesInsertionOrderCheck(entry)
                \/ /\ entry.end.form # "absent"
                   /\ InstantOf(entry.end) = InstantOf(entry.start)

====
